---- MODULE Spec2Model ----
(***************************************************************************)
(* Zero-downtime network migration of a kwil-db node.                      *)
(*                                                                         *)
(* The resolve callback startMigration is translated from the migrations   *)
(* package, the mempool (applyTransaction, accountInfo, reset) from        *)
(* node/txapp.  The Migrator behind the MigratorModule interface           *)
(* (NotifyHeight, StoreChangesets, PersistLastChangesetHeight), the        *)
(* changeset store, the vote store and the block processor's commit cycle  *)
(* are not part of the sources at hand; they are modelled from the         *)
(* specification (sections 4.B, 4.D, 4.E, 4.H, 5, 7).                      *)
(*                                                                         *)
(* Spec is the block cycle of one node, MempoolSpec the mempool of a node  *)
(* whose chain is in one of the five migration statuses, VoteSpec the vote *)
(* store with one StartMigration resolution, CodecSpec the codec of the    *)
(* migration declaration, BootSpec the boot sequence of a node (buildDB,   *)
(* restoreDB) over restarts, LockSpec the goroutines that share one        *)
(* mempool under acctsMtx, ActionSpec the modifiers of an action of the    *)
(* interpreter (FromAST), ChanSpec the changeset channel of one block      *)
(* between block processor and Migrator (ChanFairSpec with its scheduling).*)
(***************************************************************************)
EXTENDS Integers, Sequences, FiniteSets, TLC

\* ------------------------------------------------------------------------
\* Bounds
\* ------------------------------------------------------------------------

\* Width, in bits, that stands for the 64 bits of uint64 / int64.
IntBits == 5
\* Highest block height the chain is run to.
MaxHeight == 5
\* Most resolutions pending in the vote store at once.
MaxPending == 2
\* Most resolutions that reach their threshold in one block.
MaxResolved == 2
\* Most chunks in the changeset of one block.
MaxChunks == 2
\* Most aborted executions (error or crash) of one block.
MaxAttempts == 1
\* Highest nonce a transaction offered to the mempool carries.
MaxNonce == 2
\* Highest balance of an account in the account store.
MaxBalance == 2

\* ------------------------------------------------------------------------
\* Fixed-width integers
\* ------------------------------------------------------------------------

TwoToBits == 2 ^ IntBits
HalfRange == 2 ^ (IntBits - 1)

\* int64(u) for an unsigned u: values with the top bit set become negative.
ToInt64(u) == IF u >= HalfRange THEN u - TwoToBits ELSE u

\* a + b on int64: two's-complement wrap-around.
Add64(a, b) == ((a + b + HalfRange) % TwoToBits) - HalfRange

\* ------------------------------------------------------------------------
\* Data
\* ------------------------------------------------------------------------

StartMigrationEventType == "start_migration"
OtherEventType == "other"

\* Values of the two uint64 fields of a declaration that are drawn as inputs:
\* small ones and the largest uint64, which is negative as int64.
ActivationPeriods == {0, 1, TwoToBits - 1}
Durations == {0, 1, 2, TwoToBits - 1}

\* A resolution body: a serialized MigrationDeclaration, or bytes that
\* UnmarshalBinary rejects (valid = FALSE).
MigrationDeclaration ==
    [valid : {TRUE}, ActivationPeriod : ActivationPeriods, Duration : Durations,
     Timestamp : {<<>>}]
BadBody == [valid |-> FALSE, ActivationPeriod |-> 0, Duration |-> 0, Timestamp |-> <<>>]

Resolution ==
    [Type : {StartMigrationEventType}, Body : MigrationDeclaration \cup {BadBody}]
        \cup {[Type |-> OtherEventType, Body |-> BadBody]}

\* binary.Write of an unsigned integer of n digits, least significant first
\* (types.SerializationByteOrder).  A digit stands for a byte.
LittleEndian(v, n) == [i \in 1..n |-> (v \div (2 ^ (i - 1))) % 2]

\* The value of digits written least significant first.
RECURSIVE FromLittleEndian(_)
FromLittleEndian(bs) ==
    IF bs = <<>> THEN 0
    ELSE bs[1] + 2 * FromLittleEndian(SubSeq(bs, 2, Len(bs)))

\* Digits of the version word (uint16) and of the length a string is
\* prefixed with (uint32), and the declaration version.
VersionDigits == 2
LenDigits == 2
migrationDeclarationVersion == 0

\* types.WriteString: the length of the string, then its bytes.
WriteString(str) == LittleEndian(Len(str), LenDigits) \o str

\* MarshalBinary: version, ActivationPeriod, Duration, Timestamp.
MarshalBinary(md) ==
    LittleEndian(migrationDeclarationVersion, VersionDigits)
        \o LittleEndian(md.ActivationPeriod, IntBits)
        \o LittleEndian(md.Duration, IntBits)
        \o WriteString(md.Timestamp)

\* binary.Read of an unsigned integer of n digits from the front of data:
\* io.EOF when nothing is left, io.ErrUnexpectedEOF when too little is.
binaryRead(data, n) ==
    IF Len(data) < n
    THEN [err |-> IF data = <<>> THEN "EOF" ELSE "unexpected EOF", v |-> 0, rest |-> data]
    ELSE [err |-> "nil", v |-> FromLittleEndian(SubSeq(data, 1, n)),
          rest |-> SubSeq(data, n + 1, Len(data))]

\* types.ReadString: the length, then that many bytes.
ReadString(data) ==
    LET n == binaryRead(data, LenDigits)
    IN  IF n.err # "nil" THEN [err |-> n.err, str |-> <<>>, rest |-> data]
        ELSE IF Len(n.rest) < n.v
             THEN [err |-> IF n.rest = <<>> THEN "EOF" ELSE "unexpected EOF",
                   str |-> <<>>, rest |-> data]
        ELSE [err |-> "nil", str |-> SubSeq(n.rest, 1, n.v),
              rest |-> SubSeq(n.rest, n.v + 1, Len(n.rest))]

\* The bytes of a resolution body; the body UnmarshalBinary rejects is one
\* cut short inside the version word.
PayloadBytes(body) == IF body.valid THEN MarshalBinary(body) ELSE <<0>>

\* a < b in the lexicographic order of byte strings.
RECURSIVE LexLess(_, _)
LexLess(a, b) ==
    IF b = <<>> THEN FALSE
    ELSE IF a = <<>> THEN TRUE
    ELSE IF Head(a) # Head(b) THEN Head(a) < Head(b)
    ELSE LexLess(Tail(a), Tail(b))

\* The ordered enum MigrationStatus.
MigrationStatus ==
    <<"NoActiveMigration", "ActivationPeriod", "MigrationInProgress",
      "MigrationCompleted", "GenesisMigration">>

StatusRank(s) == CHOOSE i \in 1..Len(MigrationStatus) : MigrationStatus[i] = s

\* The changeset of block h: decoding is deterministic, so it is a function
\* of the block alone.  Never empty.
Changeset(h) == [i \in 1..(1 + (h % MaxChunks)) |-> <<h, i>>]

\* What open returns: a stream of chunks, or NotFound.
Found(stream) == [found |-> TRUE, stream |-> stream]
NotFound == [found |-> FALSE, stream |-> <<>>]
NoHeight == -1

VARIABLES
    migrationParams,  \* ChainContext.MigrationParams != nil (the new network)
    height,           \* height of the last committed block
    status,           \* committed NetworkParameters.MigrationStatus
    migrations,       \* committed rows of the active-migration table
    resolutions,      \* committed pending resolutions of the vote store
    lastChangeset,    \* committed last_stored_height
    chunks,           \* changesets/<height>/chunks/<seq> on disk
    sentinel,         \* heights with changesets/<height>/.committed on disk
    snapshots,        \* heights at which a genesis snapshot was written
    pc,               \* position of the block processor
    blk,              \* the decided content of block height + 1
    decided,          \* whether blk has been decided
    idx,              \* next resolution of blk.resolves to resolve
    tx,               \* state inside the open commit transaction
    attempts,         \* aborted executions of block height + 1
    err,              \* what the last callback or notify_height returned
    torn,             \* an abort left a partial changeset of block height + 1
    first             \* result of the first complete notify_height of the block

vars == <<migrationParams, height, status, migrations, resolutions, lastChangeset,
          chunks, sentinel, snapshots, pc, blk, decided, idx, tx, attempts, err,
          torn, first>>

VARIABLES
    accounts,         \* mempool.accounts: the unconfirmed account states
    store,            \* the account store behind accountMgr
    gasDisabled,      \* NetworkParameters.DisabledGasCosts
    call              \* the last applyTransaction call: its input and its outcome

mempoolVars == <<accounts, store, gasDisabled, call>>

VARIABLES
    power,            \* the validator set: voting power of each key
    now,              \* timestamp of the block being executed
    proposal,         \* the StartMigration resolution of the vote store
    invoked,          \* ResolveFunc was invoked for the proposal
    vote              \* the last approval transaction and its outcome

voteVars == <<power, now, proposal, invoked, vote>>

VARIABLES
    decl,             \* the declaration handed to MarshalBinary
    wire,             \* the serialized payload
    decoded           \* what UnmarshalBinary made of the payload

codecVars == <<decl, wire, decoded>>

VARIABLES
    cfg,              \* the node's configuration and genesis configuration
    file,             \* the file cfg.GenesisState names
    db,               \* the local database
    node,             \* whether the node runs
    boots,            \* boots so far
    restores,         \* restores from the genesis snapshot so far
    boot              \* how the last boot went

bootVars == <<cfg, file, db, node, boots, restores, boot>>

VARIABLES
    statement,        \* ast.Modifiers of a CREATE ACTION statement
    act               \* the action FromAST filled, and the error it returned

astVars == <<statement, act>>

VARIABLES
    acctsMtx,         \* mempool.acctsMtx: the goroutine that holds it, or 0
    threads,          \* the goroutines that call into one mempool
    accepted          \* per nonce, the transactions accepted since the last reset

lockVars == <<acctsMtx, threads, accepted>>

VARIABLES
    changes,          \* the changeset channel of the block: buffer and closed flag
    capacity,         \* the buffer capacity of the channel
    produced,         \* the chunks of the block's changeset
    outbox,           \* the chunks the block processor has still to send
    inbox,            \* the chunks StoreChangesets has received
    handoff           \* how far the handoff of the block has come

chanVars == <<changes, capacity, produced, outbox, inbox, handoff>>

restVars == <<astVars, lockVars, chanVars>>

otherVars == <<voteVars, codecVars, bootVars, restVars>>

\* The parts of the node a specification does not exercise.
NoMempool == accounts = <<>> /\ store = <<>> /\ gasDisabled = FALSE /\ call = <<>>
NoVotes == power = <<>> /\ now = 0 /\ proposal = <<>> /\ invoked = FALSE /\ vote = <<>>
NoCodec == decl = <<>> /\ wire = <<>> /\ decoded = <<>>
NoBoot ==
    /\ cfg = <<>> /\ file = <<>> /\ db = "" /\ node = "" /\ boots = 0 /\ restores = 0
    /\ boot = <<>>
NoRest ==
    /\ statement = <<>> /\ act = <<>>
    /\ acctsMtx = 0 /\ threads = <<>> /\ accepted = <<>>
    /\ changes = <<>> /\ capacity = 0 /\ produced = <<>> /\ outbox = <<>>
    /\ inbox = <<>> /\ handoff = ""

\* ------------------------------------------------------------------------
\* migrations package
\* ------------------------------------------------------------------------

\* UnmarshalBinary that reads the Timestamp and does not store it.
UnmarshalBinary_dropsTimestamp(data) ==
    LET version == binaryRead(data, VersionDigits)
        ap == binaryRead(version.rest, IntBits)
        du == binaryRead(ap.rest, IntBits)
        timestamp == ReadString(du.rest)
        md(e, a, d, t) ==
            [err |-> e, ActivationPeriod |-> a, Duration |-> d, Timestamp |-> t]
    IN  IF version.err # "nil" THEN md(version.err, 0, 0, <<>>)
        ELSE IF version.v # migrationDeclarationVersion
             THEN md("invalid migration declaration version", 0, 0, <<>>)
        ELSE IF ap.err # "nil" THEN md(ap.err, 0, 0, <<>>)
        ELSE IF du.err # "nil" THEN md(du.err, ap.v, 0, <<>>)
        ELSE md(timestamp.err, ap.v, du.v, <<>>)

\* UnmarshalBinary: the error it returns and the fields it has set by then.
UnmarshalBinary(data) ==
    LET version == binaryRead(data, VersionDigits)
        ap == binaryRead(version.rest, IntBits)
        du == binaryRead(ap.rest, IntBits)
        timestamp == ReadString(du.rest)
        md(e, a, d, t) ==
            [err |-> e, ActivationPeriod |-> a, Duration |-> d, Timestamp |-> t]
    IN  IF version.err # "nil" THEN md(version.err, 0, 0, <<>>)
        ELSE IF version.v # migrationDeclarationVersion
             THEN md("invalid migration declaration version", 0, 0, <<>>)
        ELSE IF ap.err # "nil" THEN md(ap.err, 0, 0, <<>>)
        ELSE IF du.err # "nil" THEN md(du.err, ap.v, 0, <<>>)
        ELSE IF timestamp.err # "nil" THEN md(timestamp.err, ap.v, du.v, <<>>)
        ELSE md("nil", ap.v, du.v, timestamp.str)

migrationActive(rows) == rows # {}

createMigration(rows, active) == rows \cup {active}

DeleteResolutionsByType(pending, type) == {r \in pending : r.Type # type}

\* startMigration without the check for an existing active migration.
startMigration_noActiveCheck(rows, pending, params, st, body, blockHeight, fault) ==
    LET same(e) == [err |-> e, migrations |-> rows, resolutions |-> pending, status |-> st]
        mig == UnmarshalBinary(PayloadBytes(body))
        activationPeriod == ToInt64(mig.ActivationPeriod)
        dur == ToInt64(mig.Duration)
        active == [StartHeight |-> Add64(blockHeight, activationPeriod),
                   EndHeight |-> Add64(Add64(blockHeight, activationPeriod), dur)]
    IN  IF params THEN same("nil")
        ELSE IF mig.err # "nil" THEN same(mig.err)
        ELSE IF fault # "none" THEN same("db")
        ELSE [err |-> "nil", migrations |-> createMigration(rows, active),
              resolutions |-> DeleteResolutionsByType(pending, StartMigrationEventType),
              status |-> "ActivationPeriod"]

\* startMigration that leaves the pending migration resolutions in place.
startMigration_keepsPending(rows, pending, params, st, body, blockHeight, fault) ==
    LET same(e) == [err |-> e, migrations |-> rows, resolutions |-> pending, status |-> st]
        mig == UnmarshalBinary(PayloadBytes(body))
        activationPeriod == ToInt64(mig.ActivationPeriod)
        dur == ToInt64(mig.Duration)
        active == [StartHeight |-> Add64(blockHeight, activationPeriod),
                   EndHeight |-> Add64(Add64(blockHeight, activationPeriod), dur)]
    IN  IF params THEN same("nil")
        ELSE IF fault = "migrationActive" THEN same("db")
        ELSE IF migrationActive(rows) THEN same("only one migration can be active at a time")
        ELSE IF mig.err # "nil" THEN same(mig.err)
        ELSE IF fault \in {"createMigration", "DeleteResolutionsByType"} THEN same("db")
        ELSE [err |-> "nil", migrations |-> createMigration(rows, active),
              resolutions |-> pending, status |-> "ActivationPeriod"]

\* The resolve callback.  fault names the database call that fails, if any.
startMigration(rows, pending, params, st, body, blockHeight, fault) ==
    LET same(e) == [err |-> e, migrations |-> rows, resolutions |-> pending, status |-> st]
        mig == UnmarshalBinary(PayloadBytes(body))
        activationPeriod == ToInt64(mig.ActivationPeriod)
        dur == ToInt64(mig.Duration)
        active == [StartHeight |-> Add64(blockHeight, activationPeriod),
                   EndHeight |-> Add64(Add64(blockHeight, activationPeriod), dur)]
    IN  IF params THEN same("nil")
        ELSE IF fault = "migrationActive" THEN same("db")
        ELSE IF migrationActive(rows) THEN same("only one migration can be active at a time")
        ELSE IF mig.err # "nil" THEN same(mig.err)
        ELSE IF fault = "createMigration" THEN same("db")
        ELSE IF fault = "DeleteResolutionsByType"
             THEN [err |-> "db", migrations |-> createMigration(rows, active),
                   resolutions |-> pending, status |-> "ActivationPeriod"]
        ELSE [err |-> "nil", migrations |-> createMigration(rows, active),
              resolutions |-> DeleteResolutionsByType(pending, StartMigrationEventType),
              status |-> "ActivationPeriod"]

Faults == {"none", "migrationActive", "createMigration", "DeleteResolutionsByType"}

\* ------------------------------------------------------------------------
\* Changeset store
\* ------------------------------------------------------------------------

\* open that serves whatever chunks are on disk.
open_noSentinel(h) == IF chunks[h] # <<>> THEN Found(chunks[h]) ELSE NotFound

\* open(height): refuses heights without a sentinel.
open(h) == IF h \in sentinel THEN Found(chunks[h]) ELSE NotFound

\* append that does not look for the sentinel and always writes again.
appendBegin_alwaysRewrite(onDisk, hasSentinel) == [skip |-> FALSE, chunks |-> <<>>]

\* The start of append(height, stream): a height that already has its
\* sentinel is left alone, anything else on disk for the height is discarded
\* and the changeset is written from scratch.
appendBegin(onDisk, hasSentinel) ==
    IF hasSentinel THEN [skip |-> TRUE, chunks |-> onDisk]
    ELSE [skip |-> FALSE, chunks |-> <<>>]

\* ------------------------------------------------------------------------
\* Migrator
\* ------------------------------------------------------------------------

activeMigration(rows) == CHOOSE m \in rows : TRUE

\* The status that notify_height maintains for block h.
statusAt(rows, st, h) ==
    IF rows = {} THEN st
    ELSE LET m == activeMigration(rows)
         IN  IF h >= m.EndHeight THEN "MigrationCompleted"
             ELSE IF h >= m.StartHeight THEN "MigrationInProgress"
             ELSE "ActivationPeriod"

\* Block h lies in [StartHeight, EndHeight).
inWindow(rows, h) ==
    /\ rows # {}
    /\ activeMigration(rows).StartHeight <= h
    /\ h < activeMigration(rows).EndHeight

\* Block h is the last block before activation.
snapshotDue(rows, h) == rows # {} /\ h = activeMigration(rows).StartHeight - 1

\* PersistLastChangesetHeight that is not reached when the changeset was
\* found in the store.
PersistLastChangesetHeight_notOnSkip(last, h, skipped) == IF skipped THEN last ELSE h

\* The height PersistLastChangesetHeight records after the changeset of
\* block h is in the store, written now or found there.
PersistLastChangesetHeight(last, h, skipped) == h

\* A drain error that is logged and swallowed.
onDrainError_swallowed == "notified"

\* Where the block processor goes when the drain of the stream fails.
onDrainError == "idle"

\* What a complete notify_height leaves behind, and in which execution of
\* the block it did.
result(t, changeset, n) ==
    [status |-> t.status, migrations |-> t.migrations, last |-> t.last,
     changeset |-> changeset, attempt |-> n]

TypeOK ==
    /\ migrationParams \in BOOLEAN
    /\ height \in 0..MaxHeight
    /\ pc \in {"idle", "exec", "append", "notified"}
    /\ attempts \in 0..MaxAttempts
    /\ sentinel \subseteq 1..MaxHeight
    /\ resolutions \subseteq Resolution

\* The node before its first block.
NodeInit ==
    /\ migrationParams \in BOOLEAN
    /\ height = 0
    /\ status = IF migrationParams THEN "GenesisMigration" ELSE "NoActiveMigration"
    /\ migrations = {}
    /\ resolutions = {}
    /\ lastChangeset = NoHeight
    /\ chunks = [h \in 1..MaxHeight |-> <<>>]
    /\ sentinel = {}
    /\ snapshots = {}
    /\ pc = "idle"
    /\ blk = [creates |-> {}, resolves |-> <<>>]
    /\ decided = FALSE
    /\ idx = 1
    /\ tx = [status |-> status, migrations |-> {}, resolutions |-> resolutions, last |-> NoHeight]
    /\ attempts = 0
    /\ err = "nil"
    /\ torn = FALSE
    /\ first = <<>>

Init == NodeInit /\ NoMempool /\ NoVotes /\ NoCodec /\ NoBoot /\ NoRest

\* The order in which the resolutions that reach their threshold in one
\* block are resolved: ascending serialized payload.
ResolvedBefore(r1, r2) ==
    \/ LexLess(PayloadBytes(r1.Body), PayloadBytes(r2.Body))
    \/ /\ PayloadBytes(r1.Body) = PayloadBytes(r2.Body)
       /\ r1.Type = StartMigrationEventType
       /\ r2.Type # StartMigrationEventType

InPayloadOrder(S) ==
    CHOOSE o \in [1..Cardinality(S) -> S] :
        \A i, j \in 1..Cardinality(S) : i < j => ResolvedBefore(o[i], o[j])

\* A consensus engine that keeps proposing after the migration has completed.
mayPropose_always(st) == TRUE

\* The consensus engine proposes a further block unless the committed status
\* is MigrationCompleted.
mayPropose(st) == st # "MigrationCompleted"

\* The block processor opens the commit transaction of block height + 1 and
\* executes its transactions.  A block executed again has the same content.
BeginBlock ==
    /\ pc = "idle"
    /\ height < MaxHeight
    /\ mayPropose(status)
    /\ IF decided
       THEN UNCHANGED blk
       ELSE \E c \in {{}} \cup (IF Cardinality(resolutions) < MaxPending
                                  THEN {{r} : r \in Resolution \ resolutions} ELSE {}),
               o \in {InPayloadOrder(S) :
                        S \in {T \in SUBSET resolutions : Cardinality(T) <= MaxResolved}} :
                 blk' = [creates |-> c, resolves |-> o]
    /\ decided' = TRUE
    /\ tx' = [status |-> status, migrations |-> migrations,
              resolutions |-> resolutions \cup blk'.creates, last |-> lastChangeset]
    /\ idx' = 1
    /\ pc' = "exec"
    /\ err' = "nil"
    /\ UNCHANGED <<mempoolVars, otherVars>>
    /\ UNCHANGED <<migrationParams, height, status, migrations, resolutions, lastChangeset,
                   chunks, sentinel, snapshots, attempts, torn, first>>

\* Roll the open transaction back; files already written stay on disk.
Rollback ==
    /\ pc' = "idle"
    /\ torn' = (torn \/ (pc = "append" /\ chunks[height + 1] # <<>>))
    /\ attempts' = IF attempts < MaxAttempts THEN attempts + 1 ELSE attempts
    /\ tx' = [status |-> status, migrations |-> migrations,
              resolutions |-> resolutions, last |-> lastChangeset]
    /\ idx' = 1

\* One resolution of the block has reached its threshold: the vote store
\* runs its resolve callback and drops it from the pending list.  An error
\* of the callback aborts the commit of the block.
Resolve ==
    /\ pc = "exec"
    /\ idx <= Len(blk.resolves)
    /\ \E fault \in Faults :
         /\ fault # "none" => attempts < MaxAttempts
         /\ LET res == blk.resolves[idx]
                r == IF res.Type = StartMigrationEventType
                     THEN startMigration(tx.migrations, tx.resolutions, migrationParams,
                                         tx.status, res.Body, height + 1, fault)
                     ELSE [err |-> "nil", migrations |-> tx.migrations,
                           resolutions |-> tx.resolutions, status |-> tx.status]
            IN  IF r.err = "nil"
                THEN /\ tx' = [tx EXCEPT !.status = r.status, !.migrations = r.migrations,
                                         !.resolutions = r.resolutions \ {res}]
                     /\ idx' = idx + 1
                     /\ err' = "nil"
                     /\ UNCHANGED <<pc, attempts, torn>>
                ELSE Rollback /\ err' = r.err
    /\ UNCHANGED <<mempoolVars, otherVars>>
    /\ UNCHANGED <<migrationParams, height, status, migrations, resolutions, lastChangeset,
                   chunks, sentinel, snapshots, blk, decided, first>>

\* notify_height for block height + 1, up to the drain of the changeset.
NotifyHeight ==
    /\ pc = "exec"
    /\ idx > Len(blk.resolves)
    /\ LET h == height + 1
           st == statusAt(tx.migrations, tx.status, h)
           a == appendBegin(chunks[h], h \in sentinel)
       IN  /\ snapshots' = IF snapshotDue(tx.migrations, h) THEN snapshots \cup {h} ELSE snapshots
           /\ IF inWindow(tx.migrations, h)
              THEN /\ chunks' = [chunks EXCEPT ![h] = a.chunks]
                   /\ IF a.skip
                      THEN /\ tx' = [tx EXCEPT !.status = st,
                                       !.last = PersistLastChangesetHeight(tx.last, h, TRUE)]
                           /\ pc' = "notified"
                           /\ first' = IF first = <<>>
                                       THEN <<result(tx', Found(chunks'[h]), attempts)>> ELSE first
                      ELSE /\ tx' = [tx EXCEPT !.status = st]
                           /\ pc' = "append"
                           /\ UNCHANGED first
              ELSE /\ tx' = [tx EXCEPT !.status = st]
                   /\ pc' = "notified"
                   /\ UNCHANGED <<chunks, first>>
    /\ err' = "nil"
    /\ UNCHANGED <<mempoolVars, otherVars>>
    /\ UNCHANGED <<migrationParams, height, status, migrations, resolutions, lastChangeset,
                   sentinel, blk, decided, idx, attempts, torn>>

\* StoreChangesets writes the next chunk of the stream.
StoreChangesets ==
    /\ pc = "append"
    /\ LET h == height + 1
       IN  /\ Len(chunks[h]) < Len(Changeset(h))
           /\ chunks' = [chunks EXCEPT ![h] = Append(@, Changeset(h)[Len(@) + 1])]
    /\ UNCHANGED <<mempoolVars, otherVars>>
    /\ UNCHANGED <<migrationParams, height, status, migrations, resolutions, lastChangeset,
                   sentinel, snapshots, pc, blk, decided, idx, tx, attempts, err, torn, first>>

\* The stream is drained: the sentinel is written and notify_height returns.
AppendCommit ==
    /\ pc = "append"
    /\ LET h == height + 1
       IN  /\ Len(chunks[h]) = Len(Changeset(h))
           /\ sentinel' = sentinel \cup {h}
           /\ tx' = [tx EXCEPT !.last = PersistLastChangesetHeight(tx.last, h, FALSE)]
           /\ first' = IF first = <<>> THEN <<result(tx', Found(chunks[h]), attempts)>> ELSE first
    /\ pc' = "notified"
    /\ err' = "nil"
    /\ UNCHANGED <<mempoolVars, otherVars>>
    /\ UNCHANGED <<migrationParams, height, status, migrations, resolutions, lastChangeset,
                   chunks, snapshots, blk, decided, idx, attempts, torn>>

\* Draining or writing the stream fails: notify_height returns the error and
\* the block processor aborts the commit.
DrainError ==
    /\ pc = "append"
    /\ attempts < MaxAttempts
    /\ IF onDrainError = "idle"
       THEN Rollback
       ELSE /\ pc' = onDrainError
            /\ UNCHANGED <<tx, idx, attempts, torn>>
    /\ err' = "drain"
    /\ UNCHANGED <<mempoolVars, otherVars>>
    /\ UNCHANGED <<migrationParams, height, status, migrations, resolutions, lastChangeset,
                   chunks, sentinel, snapshots, blk, decided, first>>

\* The commit transaction commits: block height + 1 is final.
CommitBlock ==
    /\ pc = "notified"
    /\ height' = height + 1
    /\ status' = tx.status
    /\ migrations' = tx.migrations
    /\ resolutions' = tx.resolutions
    /\ lastChangeset' = tx.last
    /\ decided' = FALSE
    /\ blk' = [creates |-> {}, resolves |-> <<>>]
    /\ attempts' = 0
    /\ torn' = FALSE
    /\ first' = <<>>
    /\ idx' = 1
    /\ pc' = "idle"
    /\ UNCHANGED <<mempoolVars, otherVars>>
    /\ UNCHANGED <<migrationParams, chunks, sentinel, snapshots, tx, err>>

\* The process dies inside the commit of a block and restarts.
Crash ==
    /\ pc # "idle"
    /\ attempts < MaxAttempts
    /\ Rollback
    /\ err' = "crash"
    /\ UNCHANGED <<mempoolVars, otherVars>>
    /\ UNCHANGED <<migrationParams, height, status, migrations, resolutions, lastChangeset,
                   chunks, sentinel, snapshots, blk, decided, first>>

Next ==
    \/ BeginBlock
    \/ Resolve
    \/ NotifyHeight
    \/ StoreChangesets
    \/ AppendCommit
    \/ DrainError
    \/ CommitBlock
    \/ Crash

Spec == Init /\ [][Next]_<<vars, mempoolVars, otherVars>>

\* ------------------------------------------------------------------------
\* Mempool (txapp.mempool)
\* ------------------------------------------------------------------------

\* The payload types the firewall switches on, and the others.
BlockedInMigration ==
    {"ValidatorJoin", "ValidatorLeave", "ValidatorApprove", "ValidatorRemove",
     "ValidatorVoteIDs", "ValidatorVoteBodies", "RawStatement", "Transfer"}
PayloadTypes == BlockedInMigration \cup {"CreateResolution", "ApproveResolution", "Execute"}

\* The text the firewall puts after the wrapped error for each payload type.
KindName(t) ==
    CASE t = "ValidatorJoin" -> "validator join"
      [] t = "ValidatorLeave" -> "validator leave"
      [] t = "ValidatorApprove" -> "validator approve"
      [] t = "ValidatorRemove" -> "validator remove"
      [] t = "ValidatorVoteIDs" -> "validator vote ids"
      [] t = "ValidatorVoteBodies" -> "validator vote bodies"
      [] t = "RawStatement" -> "raw statement"
      [] t = "Transfer" -> "transfer"

\* An error value: the sentinel it wraps or is (errors.Is), and its text.
Wrap(target, msg) == [is |-> target, msg |-> msg]
\* errors.New and errors of callees: no sentinel of package types.
New(msg) == [is |-> "none", msg |-> msg]
Nil == [is |-> "nil", msg |-> ""]

\* NetworkParameters.MaxVotesPerTx of the chain the mempool serves.
MaxVotesPerTx == 1

\* The two pending resolutions a transaction can name, by ID.
MigrationProposal ==
    [Type |-> StartMigrationEventType,
     Body |-> [valid |-> TRUE, ActivationPeriod |-> 1, Duration |-> 1, Timestamp |-> <<>>]]
OtherProposal == [Type |-> OtherEventType, Body |-> BadBody]
ResolutionIDs == {MigrationProposal, OtherProposal}

\* Decoded payloads; ok = FALSE is a payload UnmarshalBinary rejects.
NoPayload == [ok |-> TRUE, Type |-> "", ResolutionID |-> OtherProposal, NumIDs |-> 0, Amount |-> 0]
Payloads(t) ==
    CASE t = "CreateResolution" ->
           {[NoPayload EXCEPT !.ok = FALSE]}
               \cup {[NoPayload EXCEPT !.Type = ty] : ty \in {StartMigrationEventType, OtherEventType}}
      [] t = "ApproveResolution" ->
           {[NoPayload EXCEPT !.ok = FALSE]}
               \cup {[NoPayload EXCEPT !.ResolutionID = id] : id \in ResolutionIDs}
      [] t = "ValidatorVoteIDs" ->
           {[NoPayload EXCEPT !.ok = FALSE]}
               \cup {[NoPayload EXCEPT !.NumIDs = n] : n \in {MaxVotesPerTx, MaxVotesPerTx + 1}}
      [] t = "Transfer" ->
           {[NoPayload EXCEPT !.ok = FALSE]}
               \cup {[NoPayload EXCEPT !.Amount = a] : a \in -1..MaxBalance}
      [] OTHER -> {NoPayload}

\* Who signs: the local node (a validator), a user that is no validator,
\* and a signature type no authenticator is registered for.
NodeSender == "node"
NodeAuthType == "secp256k1"
Signers ==
    {[Sender |-> NodeSender, SigType |-> NodeAuthType],
     [Sender |-> "user", SigType |-> NodeAuthType],
     [Sender |-> "user", SigType |-> "unknown"]}

Transaction ==
    UNION {[PayloadType : {t}, Payload : Payloads(t), Signer : Signers,
            Nonce : 1..MaxNonce, Fee : 0..1] : t \in PayloadTypes}


\* MigrationStatus.Active and the two other flags applyTransaction derives
\* from the status.
inMigration_onlyInProgress(st) == st = "MigrationInProgress"
inMigration(st) == st \in {"MigrationInProgress", "MigrationCompleted"}
Active(st) == st \in {"ActivationPeriod", "MigrationInProgress"}
genesisMigration(st) == st = "GenesisMigration"

\* authExt.GetAuthenticatorKeyType: the key type of a signature type.
GetAuthenticatorKeyType(sigType) ==
    IF sigType = "unknown" THEN [err |-> New("unknown auth type"), keyType |-> ""]
    ELSE [err |-> Nil, keyType |-> sigType]

\* TxSenderAcctID: the account of the sender.
TxSenderAcctID(txn) ==
    LET k == GetAuthenticatorKeyType(txn.Signer.SigType)
    IN  [err |-> k.err, acctID |-> [Identifier |-> txn.Signer.Sender, KeyType |-> k.keyType]]

AccountIDs ==
    {TxSenderAcctID([Signer |-> sg]).acctID : sg \in {x \in Signers : x.SigType # "unknown"}}

\* The validator set: the local node.
Validators == {a \in AccountIDs : a.Identifier = NodeSender}
GetValidatorPower(sender, keyType) ==
    IF [Identifier |-> sender, KeyType |-> keyType] \in Validators THEN 1 ELSE 0

\* Keys of the map m.accounts: accountInfo files a record under the
\* serialized AccountID, applyTransaction deletes under the bare sender bytes.
MarshalAccountID(acctID) == <<acctID.KeyType, acctID.Identifier>>
SenderBytes(txn) == <<txn.Signer.Sender>>

Put(m, k, v) == [x \in DOMAIN m \cup {k} |-> IF x = k THEN v ELSE m[x]]
Delete(m, k) == [x \in DOMAIN m \ {k} |-> m[x]]

\* accountInfo that reads the account store whatever the mempool holds.
accountInfo_alwaysStore(accts, acctStore, acctID, fault) ==
    IF fault = "GetAccount"
    THEN [err |-> New("db"), acct |-> acctStore[acctID], accounts |-> accts]
    ELSE [err |-> Nil, acct |-> acctStore[acctID],
          accounts |-> Put(accts, MarshalAccountID(acctID), acctStore[acctID])]

\* accountInfo: the pending record of the mempool, or the one of the account
\* store, which is then filed in the mempool.
accountInfo(accts, acctStore, acctID, fault) ==
    LET id == MarshalAccountID(acctID)
    IN  IF id \in DOMAIN accts THEN [err |-> Nil, acct |-> accts[id], accounts |-> accts]
        ELSE IF fault = "GetAccount"
             THEN [err |-> New("db"), acct |-> acctStore[acctID], accounts |-> accts]
        ELSE [err |-> Nil, acct |-> acctStore[acctID],
              accounts |-> Put(accts, id, acctStore[acctID])]

\* resolutionByID on the pending resolutions.
resolutionByID(pending, id, fault) ==
    IF fault = "resolutionByID" \/ id \notin pending
    THEN [err |-> New("not found"), resolution |-> id]
    ELSE [err |-> Nil, resolution |-> id]



\* A check of the resolution type that takes every resolution for a
\* migration resolution.
isMigrationResolution_any(type) == TRUE

\* The resolution is a migration resolution.
isMigrationResolution(type) == type = StartMigrationEventType

\* applyTransaction from its first statement to the check of the vote
\* bodies: the migration firewall and the checks on resolutions and votes.
\* Returns the error, Nil when the transaction goes on to the account checks.
admit(st, txn, pending, fault) ==
    LET t == txn.PayloadType
        pl == txn.Payload
        blocked == Active(st) \/ genesisMigration(st)
        k == GetAuthenticatorKeyType(txn.Signer.SigType)
        res == resolutionByID(pending, pl.ResolutionID, fault)
        create ==
            IF t # "CreateResolution" THEN Nil
            ELSE IF ~pl.ok THEN New("decode")
            ELSE IF blocked /\ isMigrationResolution(pl.Type)
                 THEN Wrap("ErrDisallowedInMigration", "migration resolutions")
            ELSE Nil
        approve ==
            IF t # "ApproveResolution" THEN Nil
            ELSE IF ~pl.ok THEN New("decode")
            ELSE IF res.err # Nil THEN New("migration proposal not found")
            ELSE IF blocked /\ isMigrationResolution(res.resolution.Type)
                 THEN New("approving migration resolutions are not allowed during migration")
            ELSE Nil
        voteIDs ==
            IF t # "ValidatorVoteIDs" THEN Nil
            ELSE IF k.err # Nil THEN New("invalid key type")
            ELSE IF fault = "GetValidatorPower" THEN New("db")
            ELSE IF GetValidatorPower(txn.Signer.Sender, k.keyType) = 0
                 THEN New("only validators can submit validator vote transactions")
            ELSE IF ~pl.ok THEN New("decode")
            ELSE IF pl.NumIDs > MaxVotesPerTx THEN New("number of voteIDs exceeds the limit")
            ELSE Nil
        voteBodies ==
            IF t = "ValidatorVoteBodies"
            THEN New("validator vote bodies can not enter the mempool")
            ELSE Nil
    IN  IF inMigration(st) /\ t \in BlockedInMigration
        THEN Wrap("ErrDisallowedInMigration", KindName(t))
        ELSE IF create # Nil THEN create
        ELSE IF approve # Nil THEN approve
        ELSE IF voteIDs # Nil THEN voteIDs
        ELSE voteBodies

\* A nonce check that accepts the pending nonce again.
validNonce_orSame(txNonce, acctNonce) == txNonce \in {acctNonce, acctNonce + 1}

\* The nonce a transaction must carry: the pending nonce of the account + 1.
validNonce(txNonce, acctNonce) == txNonce = acctNonce + 1

\* A rebroadcast check that takes no transaction for one of the local node.
fromLocalNode_never(txn) == txn.PayloadType = "ValidatorVoteIDs" /\ txn.Signer.Sender = ""

\* The transaction is a ValidatorVoteIDs transaction of the local node.
fromLocalNode(txn) ==
    /\ txn.PayloadType = "ValidatorVoteIDs"
    /\ txn.Signer.SigType = NodeAuthType
    /\ txn.Signer.Sender = NodeSender

\* A debit that is not held at zero.
debit_unclamped(balance, spend) == balance - spend

\* The pending balance after a spend: reduced, but no lower than zero.
debit(balance, spend) == IF spend > balance THEN 0 ELSE balance - spend

\* charge that books nonce and spend before it checks the transfer.
charge_beforeChecks(acct, txn) ==
    LET amt == IF txn.PayloadType = "Transfer" THEN txn.Payload.Amount ELSE 0
        booked == [Nonce |-> txn.Nonce, Balance |-> debit(acct.Balance, txn.Fee + amt)]
    IN  IF txn.PayloadType = "Transfer" /\ ~txn.Payload.ok
        THEN [err |-> New("decode"), acct |-> booked]
        ELSE IF amt < 0
             THEN [err |-> Wrap("ErrInvalidAmount", "negative transfer not permitted"),
                   acct |-> booked]
        ELSE IF amt > acct.Balance
             THEN [err |-> Wrap("ErrInsufficientBalance", ""), acct |-> booked]
        ELSE [err |-> Nil, acct |-> booked]

\* applyTransaction from the spend to the end: the checks of a transfer,
\* then the pending balance and nonce of the account.
charge(acct, txn) ==
    LET amt == IF txn.PayloadType = "Transfer" THEN txn.Payload.Amount ELSE 0
        spend == txn.Fee + amt
    IN  IF txn.PayloadType = "Transfer" /\ ~txn.Payload.ok
        THEN [err |-> New("decode"), acct |-> acct]
        ELSE IF amt < 0
             THEN [err |-> Wrap("ErrInvalidAmount", "negative transfer not permitted"),
                   acct |-> acct]
        ELSE IF amt > acct.Balance
             THEN [err |-> Wrap("ErrInsufficientBalance", ""), acct |-> acct]
        ELSE [err |-> Nil,
              acct |-> [Nonce |-> txn.Nonce, Balance |-> debit(acct.Balance, spend)]]

\* applyTransaction.  marked holds the number of resolution IDs handed to
\* MarkRebroadcast, if it was called.
applyTransaction(st, txn, pending, accts, acctStore, gasOff, fault) ==
    LET out(e, a, m) == [err |-> e, accounts |-> a, marked |-> m]
        first_ == admit(st, txn, pending, fault)
        id == TxSenderAcctID(txn)
        info == accountInfo(accts, acctStore, id.acctID, fault)
        acct == info.acct
        local == fromLocalNode(txn)
        c == charge(acct, txn)
    IN  IF first_ # Nil THEN out(first_, accts, <<>>)
        ELSE IF id.err # Nil THEN out(id.err, accts, <<>>)
        ELSE IF info.err # Nil THEN out(info.err, accts, <<>>)
        ELSE IF ~gasOff /\ acct.Nonce = 0 /\ acct.Balance = 0
             THEN out(Wrap("ErrInsufficientBalance", ""),
                      Delete(info.accounts, SenderBytes(txn)), <<>>)
        ELSE IF ~validNonce(txn.Nonce, acct.Nonce)
             THEN IF local /\ ~txn.Payload.ok THEN out(New("decode"), info.accounts, <<>>)
                  ELSE IF local /\ fault = "MarkRebroadcast"
                       THEN out(New("db"), info.accounts, <<>>)
                  ELSE out(Wrap("ErrInvalidNonce", "invalid nonce"), info.accounts,
                           IF local THEN <<txn.Payload.NumIDs>> ELSE <<>>)
        ELSE out(c.err, Put(info.accounts, MarshalAccountID(id.acctID), c.acct), <<>>)

\* reset: the unconfirmed account states are dropped.
reset == <<>>


\* The account store: the node's account is funded, the user's is not.
AccountStores ==
    {[a \in AccountIDs |->
         [Nonce |-> 0, Balance |-> IF a.Identifier = NodeSender THEN MaxBalance ELSE 0]]}

\* The migration the chain of the mempool has accepted, if any, and the
\* height at which the chain has each status.
ScheduledMigration == [StartHeight |-> 3, EndHeight |-> 4]
HeightOf(st) ==
    CASE st = "ActivationPeriod" -> 2
      [] st = "MigrationInProgress" -> 3
      [] st = "MigrationCompleted" -> 4
      [] OTHER -> 1

\* The mempool of a node whose chain is in any of the five statuses, with
\* any of the two proposals pending.
MempoolInit ==
    /\ status \in {MigrationStatus[i] : i \in 1..Len(MigrationStatus)}
    /\ migrationParams = (status = "GenesisMigration")
    /\ height = HeightOf(status)
    /\ migrations = IF Active(status) \/ inMigration(status) THEN {ScheduledMigration} ELSE {}
    /\ resolutions \in SUBSET ResolutionIDs
    /\ sentinel = {k \in 1..height : inWindow(migrations, k)}
    /\ chunks = [h \in 1..MaxHeight |-> IF h \in sentinel THEN Changeset(h) ELSE <<>>]
    /\ lastChangeset = IF sentinel = {} THEN NoHeight
                       ELSE CHOOSE k \in sentinel : \A j \in sentinel : j <= k
    /\ snapshots = {k \in 1..height : snapshotDue(migrations, k)}
    /\ pc = "idle"
    /\ blk = [creates |-> {}, resolves |-> <<>>]
    /\ decided = FALSE
    /\ idx = 1
    /\ tx = [status |-> status, migrations |-> migrations, resolutions |-> resolutions,
             last |-> lastChangeset]
    /\ attempts = 0
    /\ err = "nil"
    /\ torn = FALSE
    /\ first = <<>>
    /\ accounts = reset
    /\ store \in AccountStores
    /\ gasDisabled \in BOOLEAN
    /\ call = <<>>
    /\ NoVotes
    /\ NoCodec
    /\ NoBoot
    /\ NoRest

\* The database calls that can fail on the way of a transaction.
FaultsOf(txn) ==
    {"none", "GetAccount"}
        \cup (IF txn.PayloadType = "ApproveResolution" THEN {"resolutionByID"} ELSE {})
        \cup (IF txn.PayloadType = "ValidatorVoteIDs"
              THEN {"GetValidatorPower", "MarkRebroadcast"} ELSE {})

\* A transaction arrives and applyTransaction decides on it.
ApplyTransaction ==
    /\ call = <<>>
    /\ \E txn \in Transaction :
         \E fault \in FaultsOf(txn) :
           LET r == applyTransaction(status, txn, resolutions, accounts, store,
                                     gasDisabled, fault)
           IN  /\ accounts' = r.accounts
               /\ call' = <<[tx |-> txn, fault |-> fault, err |-> r.err,
                             marked |-> r.marked, before |-> accounts]>>
    /\ UNCHANGED <<store, gasDisabled>>
    /\ UNCHANGED <<vars, otherVars>>

\* applyTransaction has returned: its caller drops the transaction on an
\* error and passes it on otherwise.
Return ==
    /\ call # <<>>
    /\ call' = <<>>
    /\ UNCHANGED <<accounts, store, gasDisabled>>
    /\ UNCHANGED <<vars, otherVars>>

\* The end of a block commit: reset.
MempoolReset ==
    /\ call = <<>>
    /\ accounts # reset
    /\ accounts' = reset
    /\ UNCHANGED <<call, store, gasDisabled>>
    /\ UNCHANGED <<vars, otherVars>>

MempoolNext ==
    \/ ApplyTransaction
    \/ Return
    \/ MempoolReset

MempoolSpec == MempoolInit /\ [][MempoolNext]_<<vars, mempoolVars, otherVars>>

\* ------------------------------------------------------------------------
\* Vote store: the StartMigration resolution type
\* ------------------------------------------------------------------------

\* Largest voting power of one key.
MaxPower == 2
\* Last block timestamp, in days.
MaxTime == 9

\* MigrationResolution: the threshold of approving power and the life time
\* of a pending resolution, in days.
ConfirmationThreshold == [num |-> 2, denom |-> 3]
ExpirationPeriod == 7

\* The keys that sign approvals, and the validator sets: the power of each
\* key, 0 for a key that is no validator.  Tables are listed up to the
\* order of the keys.
Keys == 1..4
PowerTables ==
    {p \in [Keys -> 0..MaxPower] : p[1] > 0 /\ \A k \in 1..3 : p[k] >= p[k + 1]}

RECURSIVE powerOf(_, _)
powerOf(p, ks) ==
    IF ks = {} THEN 0
    ELSE LET k == CHOOSE x \in ks : TRUE IN p[k] + powerOf(p, ks \ {k})

\* The approving power has reached the threshold of the total power.
thresholdReached_majority(p, approvers) ==
    powerOf(p, approvers) * 2 > powerOf(p, Keys)
thresholdReached(p, approvers) ==
    powerOf(p, approvers) * ConfirmationThreshold.denom
        >= powerOf(p, Keys) * ConfirmationThreshold.num

\* A resolution is expired once the block time is past its expiration.
expired_atExpiry(res, t) == t >= res.expiresAt
expired(res, t) == t > res.expiresAt

isValidator_any(p, k) == TRUE
isValidator(p, k) == p[k] > 0

NoProposal == [state |-> "none", createdAt |-> 0, expiresAt |-> 0, approvers |-> {}]
createResolution(t) ==
    [state |-> "pending", createdAt |-> t, expiresAt |-> t + ExpirationPeriod,
     approvers |-> {}]

\* Execution of an approval transaction signed by key k in a block of time t.
approve(p, res, k, t) ==
    IF ~isValidator(p, k) THEN [err |-> "not a validator", proposal |-> res]
    ELSE IF res.state # "pending" THEN [err |-> "not found", proposal |-> res]
    ELSE IF expired(res, t) THEN [err |-> "expired", proposal |-> res]
    ELSE IF k \in res.approvers THEN [err |-> "already approved", proposal |-> res]
    ELSE [err |-> "nil", proposal |-> [res EXCEPT !.approvers = @ \cup {k}]]

\* End of block: a resolution that reached its threshold is resolved, one
\* that outlived its expiration is dropped.
finalize(p, res, t) ==
    IF res.state # "pending" THEN res
    ELSE IF thresholdReached(p, res.approvers) THEN [res EXCEPT !.state = "resolved"]
    ELSE IF expired(res, t) THEN [res EXCEPT !.state = "expired"]
    ELSE res

VoteInit ==
    /\ NodeInit
    /\ ~migrationParams
    /\ NoMempool
    /\ NoCodec
    /\ NoBoot
    /\ NoRest
    /\ power \in PowerTables
    /\ now = 0
    /\ proposal = NoProposal
    /\ invoked = FALSE
    /\ vote = <<>>

CreateResolution ==
    /\ proposal.state # "pending"
    /\ \E k \in Keys : isValidator(power, k)
    /\ proposal' = createResolution(now)
    /\ invoked' = FALSE
    /\ UNCHANGED <<power, now, vote>>
    /\ UNCHANGED <<vars, mempoolVars, codecVars, bootVars, restVars>>

ApproveResolution ==
    /\ \E k \in Keys :
          LET r == approve(power, proposal, k, now)
          IN  /\ proposal' = r.proposal
              /\ vote' = [signer |-> k, err |-> r.err]
    /\ UNCHANGED <<power, now, invoked>>
    /\ UNCHANGED <<vars, mempoolVars, codecVars, bootVars, restVars>>

Finalize ==
    /\ proposal' = finalize(power, proposal, now)
    /\ invoked' = (invoked \/ (proposal.state = "pending" /\ proposal'.state = "resolved"))
    /\ vote' = <<>>
    /\ now' \in now..MaxTime
    /\ UNCHANGED power
    /\ UNCHANGED <<vars, mempoolVars, codecVars, bootVars, restVars>>

VoteNext ==
    \/ CreateResolution
    \/ ApproveResolution
    \/ Finalize

VoteSpec == VoteInit /\ [][VoteNext]_<<vars, mempoolVars, otherVars>>

\* ------------------------------------------------------------------------
\* Codec of the migration declaration
\* ------------------------------------------------------------------------

\* Longest Timestamp, in bytes.
MaxLen == 2
\* Most bytes added behind a serialized declaration.
MaxExtra == 1

Timestamps == UNION {[1..n -> 0..1] : n \in 0..MaxLen}
Declarations ==
    [valid : {TRUE}, ActivationPeriod : ActivationPeriods, Duration : Durations,
     Timestamp : Timestamps]

CodecInit ==
    /\ NodeInit
    /\ ~migrationParams
    /\ NoMempool
    /\ NoVotes
    /\ NoCodec
    /\ NoBoot
    /\ NoRest

\* A proposer serializes a declaration.
Marshal ==
    /\ \E d \in Declarations :
          /\ decl' = d
          /\ wire' = MarshalBinary(d)
    /\ decoded' = <<>>
    /\ UNCHANGED <<vars, mempoolVars, voteVars, bootVars, restVars>>

\* The payload on its way: cut short, followed by more bytes, or with
\* another version word.
Truncate ==
    /\ decl # <<>>
    /\ wire = MarshalBinary(decl)
    /\ \E n \in 0..(Len(wire) - 1) : wire' = SubSeq(wire, 1, n)
    /\ decoded' = <<>>
    /\ UNCHANGED decl
    /\ UNCHANGED <<vars, mempoolVars, voteVars, bootVars, restVars>>

Extend ==
    /\ decl # <<>>
    /\ Len(wire) >= Len(MarshalBinary(decl))
    /\ Len(wire) < Len(MarshalBinary(decl)) + MaxExtra
    /\ \E b \in 0..1 : wire' = Append(wire, b)
    /\ decoded' = <<>>
    /\ UNCHANGED decl
    /\ UNCHANGED <<vars, mempoolVars, voteVars, bootVars, restVars>>

SetVersion ==
    /\ decl # <<>>
    /\ wire = MarshalBinary(decl)
    /\ \E v \in 1..(2 ^ VersionDigits - 1) :
          wire' = LittleEndian(v, VersionDigits) \o SubSeq(wire, VersionDigits + 1, Len(wire))
    /\ decoded' = <<>>
    /\ UNCHANGED decl
    /\ UNCHANGED <<vars, mempoolVars, voteVars, bootVars, restVars>>

\* The resolve callback decodes the payload.
Unmarshal ==
    /\ decoded = <<>>
    /\ decoded' = UnmarshalBinary(wire)
    /\ UNCHANGED <<decl, wire>>
    /\ UNCHANGED <<vars, mempoolVars, voteVars, bootVars, restVars>>

CodecNext ==
    \/ Marshal
    \/ Truncate
    \/ Extend
    \/ SetVersion
    \/ Unmarshal

CodecSpec == CodecInit /\ [][CodecNext]_<<vars, mempoolVars, otherVars>>

\* ------------------------------------------------------------------------
\* Boot of a node: buildServer up to the migrator
\* ------------------------------------------------------------------------

\* Most boots of one node.
MaxBoots == 3

\* Genesis StateHash (empty: not set) and the hashes a snapshot can have.
Hashes == {"aaaa", "bbbb"}
Paths == {"", "genesis-state.sql", "genesis-state.sql.gz"}
Configs == [StateSync : BOOLEAN, StateHash : {"", "aaaa"}, GenesisState : Paths]
\* The file: whether it can be opened, whether it is a gzip stream, and the
\* hash of the SQL dump it holds.
Files == [exists : BOOLEAN, gzip : BOOLEAN, hash : Hashes]

compressed(path) == path = "genesis-state.sql.gz"

\* The hash of what the reader handed to node.RestoreDB yields: the dump, or
\* the compressed bytes of a gzip file that is read as it is.
hashRead(path, f) ==
    IF f.gzip /\ ~compressed(path) THEN "gzip bytes"
    ELSE IF ~f.gzip /\ compressed(path) THEN "no gzip stream"
    ELSE f.hash

\* The database calls and services that can fail during a boot.
BootFaults ==
    {"none", "poolOpener", "schemaExists", "DoStatesync", "dbOpener",
     "CleanupResolutionsAfterMigration", "EnsureFullReplicaIdentityDatasets",
     "buildMigrator"}

\* isDbInitialized that never finds the schema.
isDbInitialized_never(dbs, fault) ==
    IF fault = "poolOpener" THEN [panic |-> "kwild database open failed", exists |-> FALSE]
    ELSE IF fault = "schemaExists"
         THEN [panic |-> "failed to check if schema exists", exists |-> FALSE]
    ELSE [panic |-> "none", exists |-> FALSE]

\* isDbInitialized: the schema kwild_voting exists.
isDbInitialized(dbs, fault) ==
    IF fault = "poolOpener" THEN [panic |-> "kwild database open failed", exists |-> FALSE]
    ELSE IF fault = "schemaExists"
         THEN [panic |-> "failed to check if schema exists", exists |-> FALSE]
    ELSE [panic |-> "none", exists |-> dbs # "uninitialized"]

\* node.RestoreDB: load the dump if its hash is the expected one.
RestoreDB(dbs, hash, snapshotHash) ==
    IF hash # snapshotHash THEN [err |-> "snapshot hash mismatch", db |-> dbs]
    ELSE [err |-> "nil", db |-> "genesis snapshot"]

\* restoreDB without the check for the snapshot path.
restoreDB_noPathCheck(c, f, dbs, synced, fault) ==
    LET out(p, r, n) == [panic |-> p, restored |-> r, db |-> n]
        init == isDbInitialized(dbs, fault)
        res == RestoreDB(dbs, hashRead(c.GenesisState, f), c.StateHash)
    IN  IF init.panic # "none" THEN out(init.panic, FALSE, dbs)
        ELSE IF init.exists THEN out("none", FALSE, dbs)
        ELSE IF c.StateSync /\ fault = "DoStatesync"
             THEN out("failed to do statesync", FALSE, dbs)
        ELSE IF c.StateSync /\ synced THEN out("none", FALSE, "statesync snapshot")
        ELSE IF c.StateHash = "" THEN out("none", FALSE, dbs)
        ELSE IF ~f.exists \/ c.GenesisState = ""
             THEN out("failed to open genesis state file", FALSE, dbs)
        ELSE IF compressed(c.GenesisState) /\ ~f.gzip
             THEN out("failed to create gzip reader", FALSE, dbs)
        ELSE IF res.err # "nil" THEN out("failed to restore DB from snapshot", FALSE, dbs)
        ELSE out("none", TRUE, res.db)

\* restoreDB: what failBuild panics with, whether the database was restored
\* from the genesis snapshot, and the database afterwards.  synced is what
\* DoStatesync returns.
restoreDB(c, f, dbs, synced, fault) ==
    LET out(p, r, n) == [panic |-> p, restored |-> r, db |-> n]
        init == isDbInitialized(dbs, fault)
        res == RestoreDB(dbs, hashRead(c.GenesisState, f), c.StateHash)
    IN  IF init.panic # "none" THEN out(init.panic, FALSE, dbs)
        ELSE IF init.exists THEN out("none", FALSE, dbs)
        ELSE IF c.StateSync /\ fault = "DoStatesync"
             THEN out("failed to do statesync", FALSE, dbs)
        ELSE IF c.StateSync /\ synced THEN out("none", FALSE, "statesync snapshot")
        ELSE IF c.StateHash = "" THEN out("none", FALSE, dbs)
        ELSE IF c.GenesisState = "" THEN out("snapshot file not provided", FALSE, dbs)
        ELSE IF ~f.exists THEN out("failed to open genesis state file", FALSE, dbs)
        ELSE IF compressed(c.GenesisState) /\ ~f.gzip
             THEN out("failed to create gzip reader", FALSE, dbs)
        ELSE IF res.err # "nil" THEN out("failed to restore DB from snapshot", FALSE, dbs)
        ELSE out("none", TRUE, res.db)

\* buildDB: restoreDB, then the application database is opened.
buildDB(c, f, dbs, synced, fault) ==
    LET r == restoreDB(c, f, dbs, synced, fault)
        out(p, o) == [panic |-> p, restored |-> r.restored, db |-> r.db, opened |-> o]
    IN  IF r.panic # "none" THEN out(r.panic, FALSE)
        ELSE IF fault = "dbOpener" THEN out("failed to open kwild postgres database", FALSE)
        ELSE IF r.restored /\ fault = "CleanupResolutionsAfterMigration"
             THEN out("failed to cleanup resolutions after snapshot restore", TRUE)
        ELSE IF r.restored /\ fault = "EnsureFullReplicaIdentityDatasets"
             THEN out("failed enable full replica identity on user datasets", TRUE)
        ELSE out("none", TRUE)

\* buildServer up to buildMigrator; the stores built between buildDB and
\* buildMigrator create their schemas in a database that has none.
buildServer(c, f, dbs, synced, fault) ==
    LET d == buildDB(c, f, dbs, synced, fault)
        built == IF d.db = "uninitialized" THEN "initialized" ELSE d.db
    IN  IF d.panic # "none"
        THEN [panic |-> d.panic, restored |-> d.restored, db |-> d.db,
              opened |-> d.opened, migrator |-> FALSE]
        ELSE IF fault = "buildMigrator"
             THEN [panic |-> "failed to create migrator", restored |-> d.restored,
                   db |-> built, opened |-> TRUE, migrator |-> FALSE]
        ELSE [panic |-> "none", restored |-> d.restored, db |-> built,
              opened |-> TRUE, migrator |-> TRUE]

BootInit ==
    /\ NodeInit
    /\ migrationParams
    /\ NoMempool
    /\ NoVotes
    /\ NoCodec
    /\ NoRest
    /\ cfg \in Configs
    /\ file \in Files
    /\ db = "uninitialized"
    /\ node = "down"
    /\ boots = 0
    /\ restores = 0
    /\ boot = <<>>

Boot ==
    /\ node = "down"
    /\ boots < MaxBoots
    /\ \E synced \in BOOLEAN, fault \in BootFaults :
          LET b == buildServer(cfg, file, db, synced, fault)
          IN  /\ boot' = [panic |-> b.panic, restored |-> b.restored, opened |-> b.opened,
                          migrator |-> b.migrator, synced |-> synced, fault |-> fault]
              /\ db' = b.db
              /\ node' = IF b.panic = "none" THEN "up" ELSE "down"
              /\ restores' = IF b.restored THEN restores + 1 ELSE restores
    /\ boots' = boots + 1
    /\ UNCHANGED <<cfg, file>>
    /\ UNCHANGED <<vars, mempoolVars, voteVars, codecVars, restVars>>

Shutdown ==
    /\ node = "up"
    /\ node' = "down"
    /\ UNCHANGED <<cfg, file, db, boots, restores, boot>>
    /\ UNCHANGED <<vars, mempoolVars, voteVars, codecVars, restVars>>

\* The operator changes the configuration or the snapshot file of a node
\* that is down.
Reconfigure ==
    /\ node = "down"
    /\ cfg' \in Configs
    /\ file' \in Files
    /\ UNCHANGED <<db, node, boots, restores, boot>>
    /\ UNCHANGED <<vars, mempoolVars, voteVars, codecVars, restVars>>

BootNext ==
    \/ Boot
    \/ Shutdown
    \/ Reconfigure

BootSpec == BootInit /\ [][BootNext]_<<vars, mempoolVars, otherVars>>

\* ------------------------------------------------------------------------
\* Interpreter: the modifiers of an action
\* ------------------------------------------------------------------------

\* Most modifiers of one CREATE ACTION statement.
MaxMods == 3

\* strings.ToLower, on strings as sequences of letters: every upper-case
\* letter becomes its lower-case letter, everything else stays.
ToLower(str) ==
    LET upper == <<"A", "B", "C", "D", "E", "F", "G", "H", "I", "J", "K", "L", "M",
                   "N", "O", "P", "Q", "R", "S", "T", "U", "V", "W", "X", "Y", "Z">>
        lower == <<"a", "b", "c", "d", "e", "f", "g", "h", "i", "j", "k", "l", "m",
                   "n", "o", "p", "q", "r", "s", "t", "u", "v", "w", "x", "y", "z">>
        rune(c) == IF \E i \in 1..26 : upper[i] = c
                   THEN lower[CHOOSE i \in 1..26 : upper[i] = c] ELSE c
    IN  [i \in 1..Len(str) |-> rune(str[i])]

\* stringToMod that compares the string as it is written.
stringToMod_caseSensitive(str) ==
    CASE str = <<"p", "u", "b", "l", "i", "c">> -> [err |-> "nil", mod |-> "PUBLIC"]
      [] str = <<"p", "r", "i", "v", "a", "t", "e">> -> [err |-> "nil", mod |-> "PRIVATE"]
      [] str = <<"s", "y", "s", "t", "e", "m">> -> [err |-> "nil", mod |-> "SYSTEM"]
      [] str = <<"o", "w", "n", "e", "r">> -> [err |-> "nil", mod |-> "OWNER"]
      [] str = <<"v", "i", "e", "w">> -> [err |-> "nil", mod |-> "VIEW"]
      [] OTHER -> [err |-> "unknown modifier", mod |-> ""]

\* stringToMod: the modifier a string names, whatever its case.
stringToMod(str) ==
    CASE ToLower(str) = <<"p", "u", "b", "l", "i", "c">> -> [err |-> "nil", mod |-> "PUBLIC"]
      [] ToLower(str) = <<"p", "r", "i", "v", "a", "t", "e">> -> [err |-> "nil", mod |-> "PRIVATE"]
      [] ToLower(str) = <<"s", "y", "s", "t", "e", "m">> -> [err |-> "nil", mod |-> "SYSTEM"]
      [] ToLower(str) = <<"o", "w", "n", "e", "r">> -> [err |-> "nil", mod |-> "OWNER"]
      [] ToLower(str) = <<"v", "i", "e", "w">> -> [err |-> "nil", mod |-> "VIEW"]
      [] OTHER -> [err |-> "unknown modifier", mod |-> ""]

\* FromAST, the loop over ast.Modifiers: the error it returns and the
\* Modifiers of the action at that moment.
FromAST(mods) ==
    LET RECURSIVE loop(_, _, _, _)
        loop(rest, modSet, Modifiers, hasPublicPrivateOrSystem) ==
            IF rest = <<>>
            THEN [err |-> IF hasPublicPrivateOrSystem THEN "nil"
                          ELSE "one of PUBLIC, PRIVATE, or SYSTEM access modifier is required",
                  Modifiers |-> Modifiers]
            ELSE LET m == stringToMod(Head(rest))
                     access == m.mod \in {"PUBLIC", "PRIVATE", "SYSTEM"}
                 IN  IF m.err # "nil" THEN [err |-> m.err, Modifiers |-> Modifiers]
                     ELSE IF access /\ hasPublicPrivateOrSystem
                          THEN [err |-> "only one of PUBLIC, PRIVATE, or SYSTEM is allowed",
                                Modifiers |-> Modifiers]
                     ELSE loop(Tail(rest), modSet \cup {m.mod},
                               IF m.mod \in modSet THEN Modifiers
                               ELSE Append(Modifiers, m.mod),
                               hasPublicPrivateOrSystem \/ access)
    IN  loop(mods, {}, <<>>, FALSE)

\* The modifier strings a statement is written with.
ModifierStrings ==
    {<<"p", "u", "b", "l", "i", "c">>, <<"P", "U", "B", "L", "I", "C">>,
     <<"P", "r", "i", "v", "a", "t", "e">>, <<"s", "y", "s", "t", "e", "m">>,
     <<"O", "W", "N", "E", "R">>, <<"v", "i", "e", "w">>, <<"V", "i", "e", "W">>,
     <<"p", "u", "b", "l", "i", "k">>, <<>>}

ActionInit ==
    /\ NodeInit
    /\ ~migrationParams
    /\ NoMempool
    /\ NoVotes
    /\ NoCodec
    /\ NoBoot
    /\ statement \in UNION {[1..n -> ModifierStrings] : n \in 0..MaxMods}
    /\ act = <<>>
    /\ acctsMtx = 0 /\ threads = <<>> /\ accepted = <<>>
    /\ changes = <<>> /\ capacity = 0 /\ produced = <<>> /\ outbox = <<>>
    /\ inbox = <<>> /\ handoff = ""

\* CREATE ACTION: the action takes its modifiers from the statement.
CreateAction ==
    /\ act = <<>>
    /\ act' = <<FromAST(statement)>>
    /\ UNCHANGED <<statement, lockVars, chanVars>>
    /\ UNCHANGED <<vars, mempoolVars, voteVars, codecVars, bootVars>>

ActionSpec == ActionInit /\ [][CreateAction]_<<vars, mempoolVars, otherVars>>

\* ------------------------------------------------------------------------
\* Mempool: concurrent callers and acctsMtx
\* ------------------------------------------------------------------------

\* The goroutines: two callers of applyTransaction, the block commit that
\* calls reset, and a caller of accountInfoSafe.
Workers == {1, 2}
Resetter == 3
Threads == Workers \cup {Resetter, 4}

\* A Lock that does not wait for the holder.
acquire_free(mtx, t) == TRUE

\* acctsMtx.Lock returns to goroutine t once no goroutine holds the mutex.
acquire(mtx, t) == mtx = 0

\* What the callers submit: transactions of the local node that pass the
\* checks before the lock, and one that does not.
LockTxs ==
    {txn \in Transaction :
        /\ txn.Signer = [Sender |-> NodeSender, SigType |-> NodeAuthType]
        /\ txn.Fee = 1
        /\ \/ txn.PayloadType = "Transfer" /\ txn.Payload.ok /\ txn.Payload.Amount = 0
           \/ txn.PayloadType = "ValidatorVoteBodies" /\ txn.Nonce = 1}

\* A goroutine outside of the mempool.
Outside ==
    [pc |-> "idle",
     tx |-> [PayloadType |-> "", Payload |-> NoPayload,
             Signer |-> [Sender |-> NodeSender, SigType |-> NodeAuthType],
             Nonce |-> 0, Fee |-> 0],
     acct |-> [Nonce |-> 0, Balance |-> 0],
     err |-> Nil]

LockInit ==
    /\ NodeInit
    /\ ~migrationParams
    /\ accounts = reset
    /\ store \in AccountStores
    /\ gasDisabled = FALSE
    /\ call = <<>>
    /\ NoVotes
    /\ NoCodec
    /\ NoBoot
    /\ acctsMtx = 0
    /\ threads = [t \in Threads |-> Outside]
    /\ accepted = [n \in 1..MaxNonce |-> 0]
    /\ statement = <<>> /\ act = <<>>
    /\ changes = <<>> /\ capacity = 0 /\ produced = <<>> /\ outbox = <<>>
    /\ inbox = <<>> /\ handoff = ""

\* A goroutine enters applyTransaction, reset or accountInfoSafe.
\* applyTransaction runs its checks on payload type and status before it
\* asks for the mutex, and returns without it if one of them fails.
Call(t) ==
    /\ threads[t].pc = "idle"
    /\ IF t \in Workers
       THEN \E txn \in LockTxs :
              LET e == admit(status, txn, resolutions, "none")
              IN  threads' = [threads EXCEPT ![t].tx = txn, ![t].err = e,
                                             ![t].pc = IF e = Nil THEN "lock" ELSE "done"]
       ELSE threads' = [threads EXCEPT ![t].pc = "lock"]
    /\ UNCHANGED <<accounts, store, gasDisabled, call, acctsMtx, accepted>>
    /\ UNCHANGED <<vars, voteVars, codecVars, bootVars, astVars, chanVars>>

\* m.acctsMtx.Lock()
Lock(t) ==
    /\ threads[t].pc = "lock"
    /\ acquire(acctsMtx, t)
    /\ acctsMtx' = t
    /\ threads' = [threads EXCEPT ![t].pc = IF t = Resetter THEN "reset" ELSE "lookup"]
    /\ UNCHANGED <<accounts, store, gasDisabled, call, accepted>>
    /\ UNCHANGED <<vars, voteVars, codecVars, bootVars, astVars, chanVars>>

\* accountInfo for the account of the transaction's sender (applyTransaction)
\* or of the local node (accountInfoSafe).
Lookup(t) ==
    /\ threads[t].pc = "lookup"
    /\ LET info == accountInfo(accounts, store, TxSenderAcctID(threads[t].tx).acctID, "none")
       IN  /\ accounts' = info.accounts
           /\ threads' = [threads EXCEPT ![t].acct = info.acct,
                                         ![t].pc = IF t \in Workers THEN "check" ELSE "unlock"]
    /\ UNCHANGED <<store, gasDisabled, call, acctsMtx, accepted>>
    /\ UNCHANGED <<vars, voteVars, codecVars, bootVars, astVars, chanVars>>

\* applyTransaction from the gas check to the checks of the transfer, on the
\* record the lookup returned.
Check(t) ==
    /\ threads[t].pc = "check"
    /\ LET id == MarshalAccountID(TxSenderAcctID(threads[t].tx).acctID)
           r == applyTransaction(status, threads[t].tx, resolutions,
                                 Put(accounts, id, threads[t].acct), store, gasDisabled, "none")
       IN  threads' = [threads EXCEPT ![t].err = r.err,
                                      ![t].pc = IF r.err = Nil THEN "write" ELSE "unlock"]
    /\ UNCHANGED <<accounts, store, gasDisabled, call, acctsMtx, accepted>>
    /\ UNCHANGED <<vars, voteVars, codecVars, bootVars, astVars, chanVars>>

\* applyTransaction books balance and nonce through the record the lookup
\* returned: the transaction is accepted.
Write(t) ==
    /\ threads[t].pc = "write"
    /\ LET id == MarshalAccountID(TxSenderAcctID(threads[t].tx).acctID)
           r == applyTransaction(status, threads[t].tx, resolutions,
                                 Put(accounts, id, threads[t].acct), store, gasDisabled, "none")
           n == threads[t].tx.Nonce
       IN  /\ accounts' = Put(accounts, id, r.accounts[id])
           /\ accepted' = [accepted EXCEPT ![n] = IF @ < 2 THEN @ + 1 ELSE @]
    /\ threads' = [threads EXCEPT ![t].pc = "unlock"]
    /\ UNCHANGED <<store, gasDisabled, call, acctsMtx>>
    /\ UNCHANGED <<vars, voteVars, codecVars, bootVars, astVars, chanVars>>

\* reset, inside the lock: a new map.
ResetAccounts(t) ==
    /\ threads[t].pc = "reset"
    /\ accounts' = reset
    /\ accepted' = [n \in 1..MaxNonce |-> 0]
    /\ threads' = [threads EXCEPT ![t].pc = "unlock"]
    /\ UNCHANGED <<store, gasDisabled, call, acctsMtx>>
    /\ UNCHANGED <<vars, voteVars, codecVars, bootVars, astVars, chanVars>>

\* m.acctsMtx.Unlock(), deferred to the return.
Unlock(t) ==
    /\ threads[t].pc = "unlock"
    /\ acctsMtx' = 0
    /\ threads' = [threads EXCEPT ![t].pc = "done"]
    /\ UNCHANGED <<accounts, store, gasDisabled, call, accepted>>
    /\ UNCHANGED <<vars, voteVars, codecVars, bootVars, astVars, chanVars>>

\* The caller has the result and goes on.
Leave(t) ==
    /\ threads[t].pc = "done"
    /\ threads' = [threads EXCEPT ![t] = Outside]
    /\ UNCHANGED <<accounts, store, gasDisabled, call, acctsMtx, accepted>>
    /\ UNCHANGED <<vars, voteVars, codecVars, bootVars, astVars, chanVars>>

LockNext ==
    \E t \in Threads :
        \/ Call(t)
        \/ Lock(t)
        \/ Lookup(t)
        \/ Check(t)
        \/ Write(t)
        \/ ResetAccounts(t)
        \/ Unlock(t)
        \/ Leave(t)

LockSpec == LockInit /\ [][LockNext]_<<vars, mempoolVars, otherVars>>

\* ------------------------------------------------------------------------
\* Changeset channel between block processor and Migrator
\* ------------------------------------------------------------------------

\* Largest buffer capacity of the changeset channel.
MaxCap == 2
\* Most chunks the block processor sends for one block.
MaxSend == 3

\* A receive that takes the chunk sent last.
receive_newest(buf) == [chunk |-> buf[Len(buf)], rest |-> SubSeq(buf, 1, Len(buf) - 1)]

\* A receive on the channel: the chunk that was sent first.
receive(buf) == [chunk |-> Head(buf), rest |-> Tail(buf)]

\* The block processor opens the channel of a block whose execution left the
\* chunks of produced, and StoreChangesets is handed its receiving end.
ChanInit ==
    /\ NodeInit
    /\ ~migrationParams
    /\ NoMempool
    /\ NoVotes
    /\ NoCodec
    /\ NoBoot
    /\ statement = <<>> /\ act = <<>>
    /\ acctsMtx = 0 /\ threads = <<>> /\ accepted = <<>>
    /\ capacity \in 1..MaxCap
    /\ produced \in UNION {[1..n -> 1..2] : n \in 0..MaxSend}
    /\ outbox = produced
    /\ changes = [buf |-> <<>>, closed |-> FALSE]
    /\ inbox = <<>>
    /\ handoff = "open"

\* The block processor sends the next chunk; it waits while the buffer is
\* full.
Send ==
    /\ handoff = "open"
    /\ outbox # <<>>
    /\ Len(changes.buf) < capacity
    /\ changes' = [changes EXCEPT !.buf = Append(@, Head(outbox))]
    /\ outbox' = Tail(outbox)
    /\ UNCHANGED <<capacity, produced, inbox, handoff>>
    /\ UNCHANGED <<vars, mempoolVars, voteVars, codecVars, bootVars, astVars, lockVars>>

\* The block processor has sent the last chunk and closes the channel.
CloseChanges ==
    /\ handoff = "open"
    /\ outbox = <<>>
    /\ ~changes.closed
    /\ changes' = [changes EXCEPT !.closed = TRUE]
    /\ UNCHANGED <<capacity, produced, outbox, inbox, handoff>>
    /\ UNCHANGED <<vars, mempoolVars, voteVars, codecVars, bootVars, astVars, lockVars>>

\* StoreChangesets receives a chunk and stores it; it waits while the buffer
\* is empty and the channel open.
Receive ==
    /\ handoff = "open"
    /\ changes.buf # <<>>
    /\ inbox' = Append(inbox, receive(changes.buf).chunk)
    /\ changes' = [changes EXCEPT !.buf = receive(changes.buf).rest]
    /\ UNCHANGED <<capacity, produced, outbox, handoff>>
    /\ UNCHANGED <<vars, mempoolVars, voteVars, codecVars, bootVars, astVars, lockVars>>

\* StoreChangesets finds the channel closed and empty, and returns.
Drained ==
    /\ handoff = "open"
    /\ changes.buf = <<>>
    /\ changes.closed
    /\ handoff' = "stored"
    /\ UNCHANGED <<changes, capacity, produced, outbox, inbox>>
    /\ UNCHANGED <<vars, mempoolVars, voteVars, codecVars, bootVars, astVars, lockVars>>

\* The commit of the block returns, after StoreChangesets has.
CommitReturns ==
    /\ handoff = "stored"
    /\ handoff' = "committed"
    /\ UNCHANGED <<changes, capacity, produced, outbox, inbox>>
    /\ UNCHANGED <<vars, mempoolVars, voteVars, codecVars, bootVars, astVars, lockVars>>

\* The next block of the window: a new channel.
NextBlock ==
    /\ handoff = "committed"
    /\ produced' \in UNION {[1..n -> 1..2] : n \in 0..MaxSend}
    /\ outbox' = produced'
    /\ changes' = [buf |-> <<>>, closed |-> FALSE]
    /\ inbox' = <<>>
    /\ handoff' = "open"
    /\ UNCHANGED capacity
    /\ UNCHANGED <<vars, mempoolVars, voteVars, codecVars, bootVars, astVars, lockVars>>

ChanNext ==
    \/ Send
    \/ CloseChanges
    \/ Receive
    \/ Drained
    \/ CommitReturns
    \/ NextBlock

ChanSpec == ChanInit /\ [][ChanNext]_<<vars, mempoolVars, otherVars>>

\* The block processor goes on when it can send or close, StoreChangesets
\* when it can receive or return, and the commit when the drain is done.
ChanFairSpec ==
    /\ ChanSpec
    /\ WF_<<vars, mempoolVars, otherVars>>(Send \/ CloseChanges)
    /\ WF_<<vars, mempoolVars, otherVars>>(Receive \/ Drained)
    /\ WF_<<vars, mempoolVars, otherVars>>(CommitReturns)

\* ------------------------------------------------------------------------
\* Properties
\* ------------------------------------------------------------------------

\* C1: MigrationStatus never moves to an earlier value of the order
\* NoActiveMigration < ActivationPeriod < MigrationInProgress <
\* MigrationCompleted, neither between committed blocks nor inside the
\* execution of a block by a resolve callback or notify_height; the callback
\* never puts ActivationPeriod over a later status.
C1_StatusMonotone ==
    [][/\ StatusRank(status') >= StatusRank(status)
       /\ (pc # "idle" /\ pc' # "idle") => StatusRank(tx'.status) >= StatusRank(tx.status)]_vars

\* A resolve callback ran while the migration was in progress and was turned away.
C1_Witness ==
    /\ status = "MigrationInProgress"
    /\ pc = "idle"
    /\ err = "only one migration can be active at a time"

\* C2: once notify_height has run for committed block h, on the network
\* that is being migrated, the status matches the height: with an active
\* migration it is ActivationPeriod iff h < StartHeight, MigrationInProgress
\* iff StartHeight <= h < EndHeight, MigrationCompleted iff h >= EndHeight;
\* without one it is NoActiveMigration.
C2_StatusMatchesHeight ==
    (height >= 1 /\ ~migrationParams) =>
        IF migrations = {}
        THEN status = "NoActiveMigration"
        ELSE \A m \in migrations :
               /\ status = "ActivationPeriod" <=> height < m.StartHeight
               /\ status = "MigrationInProgress" <=> (m.StartHeight <= height /\ height < m.EndHeight)
               /\ status = "MigrationCompleted" <=> height >= m.EndHeight

\* C3: at most one ActiveMigration record exists, committed or inside the
\* open transaction, and once a record exists no resolve callback adds a
\* second one or changes it.
C3_SingleActiveMigration ==
    /\ [](Cardinality(migrations) <= 1 /\ Cardinality(tx.migrations) <= 1)
    /\ [][/\ migrations # {} => migrations' = migrations
          /\ (pc # "idle" /\ pc' # "idle" /\ tx.migrations # {}) => tx'.migrations = tx.migrations]_vars

\* A second resolution reached its threshold in a later block, after the
\* record of the first was committed, and changed nothing.
C3_Witness ==
    /\ Cardinality(migrations) = 1
    /\ pc = "idle"
    /\ decided
    /\ blk.resolves # <<>>
    /\ err = "only one migration can be active at a time"
    /\ tx.migrations = migrations

\* C4: a StartMigration resolution with declaration (ActivationPeriod,
\* Duration) that is resolved in block r and accepted creates the record
\* StartHeight = r + ActivationPeriod, EndHeight = StartHeight + Duration and
\* makes the status ActivationPeriod in block r.
C4_HeightsFromDeclaration ==
    [][(pc = "exec" /\ pc' = "exec" /\ tx.migrations = {} /\ tx'.migrations # {}) =>
          LET d == blk.resolves[idx].Body
              r == height + 1
          IN  /\ tx'.migrations = {[StartHeight |-> r + d.ActivationPeriod,
                                    EndHeight |-> r + d.ActivationPeriod + d.Duration]}
              /\ tx'.status = "ActivationPeriod"]_vars

\* C5: every ActiveMigration record the resolve callback creates has
\* EndHeight > StartHeight; a declaration with Duration = 0 yields none.
C5_EndAfterStart ==
    \A m \in tx.migrations \cup migrations : m.EndHeight > m.StartHeight

\* C6: right after the commit of block h the changeset of height k is
\* readable and non-empty iff StartHeight <= k <= min(h, EndHeight - 1).
C6_ChangesetsExactlyWindow ==
    [][height' # height =>
          \A k \in 1..MaxHeight :
             (k \in sentinel' /\ chunks'[k] # <<>>) <=>
                 /\ migrations' # {}
                 /\ activeMigration(migrations').StartHeight <= k
                 /\ k <= height'
                 /\ k <= activeMigration(migrations').EndHeight - 1]_vars

\* C7: last_stored_height never decreases, grows by exactly 1 from one
\* stored height to the next, and equals the height of the block just
\* committed whenever that block lies in the migration window, also when
\* the block was aborted and executed again.
C7_LastStoredHeight ==
    [][/\ lastChangeset' >= lastChangeset
       /\ lastChangeset' # lastChangeset =>
              (lastChangeset = NoHeight \/ lastChangeset' = lastChangeset + 1)
       /\ (height' # height /\ inWindow(migrations', height')) => lastChangeset' = height']_vars

\* A block of the window was aborted, executed again, and is about to be
\* committed with the stored height following the previous one.
C7_Witness ==
    /\ pc = "notified"
    /\ attempts > 0
    /\ lastChangeset = height
    /\ tx.last = height + 1

\* C8: open(height) returns the complete changeset of the height or
\* NotFound, never a part of it, also after a crash between a chunk and the
\* sentinel; the block executed again after such a crash ends with the full
\* changeset readable.
C8_AppendAtomic ==
    /\ \A k \in 1..MaxHeight : open(k) = NotFound \/ open(k) = Found(Changeset(k))
    /\ (pc = "notified" /\ inWindow(tx.migrations, height + 1)) =>
           open(height + 1) = Found(Changeset(height + 1))

\* A crash left a partial changeset and the block, executed again, has its
\* full changeset in the store.
C8_Witness ==
    /\ pc = "notified"
    /\ torn
    /\ open(height + 1) = Found(Changeset(height + 1))

C10_ReplayIsNoOp ==
    /\ [](( /\ pc = "notified"
            /\ first # <<>>
            /\ first[1].attempt < attempts ) =>
              /\ result(tx, open(height + 1), first[1].attempt) = first[1]
              /\ err = "nil")
    /\ [][\A k \in sentinel : k \in sentinel' /\ chunks'[k] = chunks[k]]_vars

\* notify_height has run a second time for a block whose changeset was
\* committed by the first run.
C10_Witness ==
    /\ pc = "notified"
    /\ first # <<>>
    /\ first[1].attempt < attempts
    /\ first[1].changeset = Found(Changeset(height + 1))
    /\ err = "nil"

C12_FirewallBlocksInMigration ==
    (call # <<>> /\ call[1].tx.PayloadType \in BlockedInMigration) =>
        LET c == call[1]
        IN  /\ (c.err.is = "ErrDisallowedInMigration") <=>
                   status \in {"MigrationInProgress", "MigrationCompleted"}
            /\ status \in {"MigrationInProgress", "MigrationCompleted"} =>
                   (c.err # Nil /\ accounts = c.before)

\* A well-formed Transfer with the right nonce from a funded account was
\* turned away in MigrationCompleted.
C12_Witness ==
    /\ call # <<>>
    /\ status = "MigrationCompleted"
    /\ call[1].tx.PayloadType = "Transfer"
    /\ call[1].tx.Payload.ok
    /\ call[1].tx.Payload.Amount = 1
    /\ call[1].tx.Signer.Sender = NodeSender
    /\ call[1].tx.Nonce = 1
    /\ call[1].err = Wrap("ErrDisallowedInMigration", "transfer")

\* C13: a CreateResolution transaction whose resolution is of type
\* StartMigration is rejected by the firewall, with the migration-policy
\* error, in ActivationPeriod, MigrationInProgress, MigrationCompleted and
\* GenesisMigration, and only in NoActiveMigration it is not.
C13_CreateMigrationBlocked ==
    ( /\ call # <<>>
      /\ call[1].tx.PayloadType = "CreateResolution"
      /\ call[1].tx.Payload.ok
      /\ call[1].tx.Payload.Type = StartMigrationEventType ) =>
        ((call[1].err.is = "ErrDisallowedInMigration") <=> (status # "NoActiveMigration"))

\* C14: an ApproveResolution transaction that names a pending resolution of
\* type StartMigration is rejected by the firewall's check of the target in
\* ActivationPeriod, MigrationInProgress, MigrationCompleted and
\* GenesisMigration, and passes that check in NoActiveMigration.
C14_ApproveMigrationBlocked ==
    ( /\ call # <<>>
      /\ call[1].tx.PayloadType = "ApproveResolution"
      /\ call[1].tx.Payload.ok
      /\ call[1].tx.Payload.ResolutionID = MigrationProposal
      /\ MigrationProposal \in resolutions
      /\ call[1].fault # "resolutionByID" ) =>
        ((call[1].err.msg = "approving migration resolutions are not allowed during migration")
             <=> (status # "NoActiveMigration"))

C16_PolicyRejectionsTyped ==
    call # <<>> =>
        LET c == call[1]
            r == applyTransaction("NoActiveMigration", c.tx, resolutions, c.before, store,
                                  gasDisabled, c.fault)
        IN  (c.err # Nil /\ c.err # r.err) =>
                (c.err.is = "ErrDisallowedInMigration" /\ c.err.msg # "")

\* C17: whenever the resolve callback runs while the status is not
\* NoActiveMigration, it returns an error (AlreadyMigrating, or the error of
\* the database), never success, and no active migration record is created.
C17_RejectedUnlessNoActive ==
    [][( /\ pc = "exec"
         /\ idx <= Len(blk.resolves)
         /\ blk.resolves[idx].Type = StartMigrationEventType
         /\ tx.status # "NoActiveMigration"
         /\ err' # "crash" ) =>
           /\ err' \in {"only one migration can be active at a time", "db"}
           /\ pc' = "idle"
           /\ tx'.migrations = migrations]_vars

\* C18: when a StartMigration resolution reaches its threshold while an
\* active migration record exists, the resolve callback returns an error and
\* leaves the record and the status as they were before the call; nothing
\* committed changes.
C18_SecondMigrationRejected ==
    /\ []( ( /\ pc = "exec"
             /\ idx <= Len(blk.resolves)
             /\ blk.resolves[idx].Type = StartMigrationEventType
             /\ tx.migrations # {} ) =>
               \A fault \in Faults :
                  LET r == startMigration(tx.migrations, tx.resolutions, migrationParams,
                                          tx.status, blk.resolves[idx].Body, height + 1, fault)
                  IN  /\ r.err # "nil"
                      /\ r.migrations = tx.migrations
                      /\ r.status = tx.status )
    /\ [][( /\ pc = "exec"
            /\ idx <= Len(blk.resolves)
            /\ blk.resolves[idx].Type = StartMigrationEventType
            /\ migrations # {} ) =>
              /\ err' # "nil"
              /\ migrations' = migrations
              /\ status' = status
              /\ tx'.migrations = migrations
              /\ tx'.status = status]_vars

\* A second resolution with a well-formed declaration was resolved after the
\* first had been committed, and was turned away; the migration and the
\* status are as committed.
C18_Witness ==
    /\ status \in {"ActivationPeriod", "MigrationInProgress"}
    /\ migrations # {}
    /\ pc = "idle"
    /\ decided
    /\ Len(blk.resolves) = 1
    /\ blk.resolves[1].Type = StartMigrationEventType
    /\ blk.resolves[1].Body.valid
    /\ err = "only one migration can be active at a time"
    /\ tx.migrations = migrations
    /\ tx.status = status

\* C19: the step in which a StartMigration resolution passes and the active
\* migration is created leaves no pending resolution of type StartMigration,
\* and leaves the pending resolutions of every other type as they were.
C19_PendingMigrationsDeleted ==
    [][( /\ pc = "exec"
         /\ pc' = "exec"
         /\ tx.migrations = {}
         /\ tx'.migrations # {} ) =>
           /\ \A r \in tx'.resolutions : r.Type # StartMigrationEventType
           /\ {r \in tx'.resolutions : r.Type # StartMigrationEventType}
                  = {r \in tx.resolutions : r.Type # StartMigrationEventType}]_vars

\* The migration was created in this block; a migration resolution that was
\* pending and is not resolved in this block is gone.
C19_Witness ==
    /\ pc = "exec"
    /\ err = "nil"
    /\ migrations = {}
    /\ tx.migrations # {}
    /\ \E r \in resolutions :
          /\ r.Type = StartMigrationEventType
          /\ \A i \in 1..Len(blk.resolves) : blk.resolves[i] # r
          /\ r \notin tx.resolutions

\* The StartMigration resolutions block height + 1 resolves.
migrationsResolved == {i \in 1..Len(blk.resolves) : blk.resolves[i].Type = StartMigrationEventType}

\* blk.resolves[i] has the smallest payload of the StartMigration
\* resolutions the block resolves.
smallestPayload(i) ==
    \A j \in migrationsResolved \ {i} :
       LexLess(PayloadBytes(blk.resolves[i].Body), PayloadBytes(blk.resolves[j].Body))

approvalStep ==
    /\ vote' # <<>>
    /\ <<vote, proposal>>' # <<vote, proposal>>
    /\ ~(proposal.state # "pending" /\ proposal'.state = "pending")
\* A step that ends a block while the resolution is pending.
finalizeStep == proposal.state = "pending" /\ vote' = <<>>

C22_ExpiresAfterOneWeek ==
    [][/\ (approvalStep /\ proposal.state = "pending" /\ power[vote'.signer] > 0
              /\ vote'.signer \notin proposal.approvers)
            => IF now <= proposal.createdAt + ExpirationPeriod
               THEN vote'.err = "nil"
                    /\ proposal'.approvers = proposal.approvers \cup {vote'.signer}
               ELSE vote'.err # "nil" /\ proposal' = proposal
       /\ (proposal'.state = "expired" /\ proposal.state # "expired")
            => /\ proposal.state = "pending"
               /\ now > proposal.createdAt + ExpirationPeriod
       /\ (finalizeStep /\ now > proposal.createdAt + ExpirationPeriod
              /\ proposal'.state # "resolved")
            => proposal'.state = "expired"
       /\ proposal'.state = "expired" => ~invoked']_<<vars, mempoolVars, otherVars>>

C22_Witness ==
    /\ proposal.state = "pending"
    /\ proposal.approvers # {}
    /\ vote # <<>>
    /\ vote.err = "expired"
    /\ now = proposal.createdAt + ExpirationPeriod + 1

\* C23: an approval signed by a key that is not in the validator set fails
\* when it is executed and leaves the resolution and its approvals as they
\* were.
C23_NonValidatorApprovalFails ==
    [][(approvalStep /\ power[vote'.signer] = 0)
           => /\ vote'.err # "nil"
              /\ proposal' = proposal
              /\ invoked' = invoked]_<<vars, mempoolVars, otherVars>>

C23_Witness ==
    /\ vote # <<>>
    /\ power[vote.signer] = 0
    /\ vote.err = "not a validator"
    /\ proposal.state = "pending"
    /\ proposal.approvers # {}

\* C24: for every declaration, whatever its ActivationPeriod, Duration and
\* Timestamp (the empty one included), UnmarshalBinary of its MarshalBinary
\* succeeds and yields the same three fields.
C24_RoundTrip ==
    (decl # <<>> /\ decoded # <<>> /\ wire = MarshalBinary(decl))
        => /\ decoded.err = "nil"
           /\ decoded.ActivationPeriod = decl.ActivationPeriod
           /\ decoded.Duration = decl.Duration
           /\ decoded.Timestamp = decl.Timestamp

C24_Witness ==
    /\ decl # <<>>
    /\ decoded # <<>>
    /\ wire = MarshalBinary(decl)
    /\ decl.ActivationPeriod = TwoToBits - 1
    /\ decl.Duration = 1
    /\ Len(decl.Timestamp) = MaxLen
    /\ decoded.Timestamp = decl.Timestamp

\* C25: UnmarshalBinary accepts a payload exactly if it is the MarshalBinary
\* of a declaration (an unknown version, a field cut short and bytes left
\* unread behind Timestamp are rejected), and MarshalBinary of what it
\* decoded is the payload again.
C25_DecodeAcceptsExactlyEncodings ==
    decoded # <<>>
        => /\ (decoded.err = "nil") <=> (\E d \in Declarations : wire = MarshalBinary(d))
           /\ decoded.err = "nil" => MarshalBinary(decoded) = wire

\* C26: the resolve callback checks its height arithmetic: a declaration
\* for which r + ActivationPeriod or r + ActivationPeriod + Duration does
\* not fit an int64 is rejected and creates no record, and a record that is
\* created has StartHeight at or above the resolving height r and EndHeight
\* at or above StartHeight, neither negative nor wrapped.
C26_HeightArithmeticChecked ==
    [][(/\ pc = "exec"
        /\ idx <= Len(blk.resolves)
        /\ blk.resolves[idx].Type = StartMigrationEventType
        /\ blk.resolves[idx].Body.valid
        /\ tx.migrations = {})
           => LET d == blk.resolves[idx].Body
                  r == height + 1
              IN  IF r + d.ActivationPeriod + d.Duration >= HalfRange
                  THEN tx'.migrations = {} /\ idx' # idx + 1
                  ELSE \A m \in tx'.migrations :
                          /\ m.StartHeight = r + d.ActivationPeriod
                          /\ m.EndHeight = m.StartHeight + d.Duration]_vars

\* A step that boots the node.
bootStep == boots' = boots + 1
\* The file cfg.GenesisState names can be read and hashes to StateHash.
fileMatches ==
    cfg.GenesisState # "" /\ file.exists /\ hashRead(cfg.GenesisState, file) = cfg.StateHash
\* The boot failed before restoreDB got to decide: the database could not be
\* queried, or state sync returned an error.
failedEarly ==
    boot'.panic \in {"kwild database open failed", "failed to check if schema exists",
                     "failed to do statesync"}

C29_OneSnapshotBeforeActivation ==
    [][height' # height =>
          IF migrations' = {} THEN snapshots' = {}
          ELSE LET m == activeMigration(migrations')
               IN  /\ snapshots' \subseteq {m.StartHeight - 1}
                   /\ height' >= m.StartHeight - 1 => snapshots' = {m.StartHeight - 1}
                   /\ status' = "MigrationInProgress" => snapshots' # {}]_vars

\* The migration was accepted in the last committed block from a
\* declaration with ActivationPeriod = 0: it starts at that height, and no
\* block before it knew of it.
acceptedWithoutActivationPeriod ==
    /\ migrations # {}
    /\ activeMigration(migrations).StartHeight = height
    /\ (height - 1) \notin snapshots

\* C30: when a declaration with ActivationPeriod = 0 is accepted in block
\* r, the commit of block r + 1 leaves the status MigrationInProgress with
\* the changeset of block r + 1 stored, and block r is not committed in
\* status ActivationPeriod without a changeset.
C30_ActivatesInNextBlock ==
    [][/\ (height' # height /\ acceptedWithoutActivationPeriod)
            => /\ status' = "MigrationInProgress"
               /\ height' \in sentinel'
               /\ chunks'[height'] # <<>>
       /\ (height' # height /\ migrations = {} /\ migrations' # {}
              /\ activeMigration(migrations').StartHeight = height')
            => ~(status' = "ActivationPeriod" /\ height' \notin sentinel')]_vars

\* The pending record of an account as a lookup finds it: the one filed in
\* the mempool, or else the one of the account store.
pendingOf(accts, acctID) ==
    IF MarshalAccountID(acctID) \in DOMAIN accts THEN accts[MarshalAccountID(acctID)]
    ELSE store[acctID]

\* C31: a transaction is accepted only with the nonce that follows the pending
\* nonce of its sender, and the pending nonce is then the nonce of the
\* transaction, so that the accepted nonces of an account are consecutive.
C31_ConsecutiveNonces ==
    (call # <<>> /\ call[1].err = Nil) =>
        LET a == TxSenderAcctID(call[1].tx).acctID
        IN  /\ call[1].tx.Nonce = pendingOf(call[1].before, a).Nonce + 1
            /\ MarshalAccountID(a) \in DOMAIN accounts
            /\ accounts[MarshalAccountID(a)].Nonce = call[1].tx.Nonce

\* The second transaction of an account is accepted after its first.
C31_Witness ==
    /\ call # <<>>
    /\ call[1].err = Nil
    /\ call[1].tx.Nonce = 2
    /\ pendingOf(call[1].before, TxSenderAcctID(call[1].tx).acctID).Nonce = 1

\* C32: a transaction that applyTransaction rejects leaves the pending nonce
\* and the pending balance of every account as they were.
C32_RejectionKeepsAccounts ==
    (call # <<>> /\ call[1].err # Nil) =>
        \A a \in AccountIDs : pendingOf(accounts, a) = pendingOf(call[1].before, a)

\* A transfer with the right nonce is rejected for its amount while its sender
\* has an accepted transaction pending.
C32_Witness ==
    /\ call # <<>>
    /\ call[1].err.is \in {"ErrInvalidAmount", "ErrInsufficientBalance"}
    /\ call[1].tx.PayloadType = "Transfer"
    /\ pendingOf(call[1].before, TxSenderAcctID(call[1].tx).acctID).Nonce = 1
    /\ call[1].tx.Nonce = 2

\* C33: no pending balance is negative; an accepted transaction lowers the
\* pending balance of its sender by fee and amount, or to zero when that is
\* more than the balance; an accepted transfer has an amount from zero to the
\* pending balance.
C33_BalanceNeverNegative ==
    /\ \A k \in DOMAIN accounts : accounts[k].Balance >= 0
    /\ (call # <<>> /\ call[1].err = Nil) =>
         LET a == TxSenderAcctID(call[1].tx).acctID
             was == pendingOf(call[1].before, a).Balance
             amt == IF call[1].tx.PayloadType = "Transfer"
                    THEN call[1].tx.Payload.Amount ELSE 0
             spend == call[1].tx.Fee + amt
         IN  /\ amt >= 0
             /\ amt <= was
             /\ pendingOf(accounts, a).Balance = IF spend > was THEN 0 ELSE was - spend

\* A transfer of the whole pending balance is accepted with a fee on top.
C33_Witness ==
    /\ call # <<>>
    /\ call[1].err = Nil
    /\ call[1].tx.PayloadType = "Transfer"
    /\ call[1].tx.Payload.Amount > 0
    /\ call[1].tx.Payload.Amount = pendingOf(call[1].before, TxSenderAcctID(call[1].tx).acctID).Balance
    /\ call[1].tx.Fee > 0
    /\ pendingOf(accounts, TxSenderAcctID(call[1].tx).acctID).Balance = 0

C37_UnfundedNotCached ==
    (/\ call # <<>>
     /\ ~gasDisabled
     /\ TxSenderAcctID(call[1].tx).err = Nil
     /\ pendingOf(call[1].before, TxSenderAcctID(call[1].tx).acctID) = [Nonce |-> 0, Balance |-> 0]
     /\ admit(status, call[1].tx, resolutions, call[1].fault) = Nil
     /\ call[1].fault # "GetAccount")
        => /\ call[1].err.is = "ErrInsufficientBalance"
           /\ MarshalAccountID(TxSenderAcctID(call[1].tx).acctID) \notin DOMAIN accounts

\* C38: before reset, an account with an accepted transaction is looked up in
\* the mempool and not in the account store; reset empties the mempool, so
\* that the first lookup of any account after it returns the record of the
\* account store.
C38_ResetDiscardsPending ==
    [][/\ \A a \in AccountIDs :
            MarshalAccountID(a) \in DOMAIN accounts
                => /\ accountInfo(accounts, store, a, "none").acct = accounts[MarshalAccountID(a)]
                   /\ accountInfo(accounts, store, a, "none").accounts = accounts
       /\ (call = <<>> /\ call' = <<>> /\ accounts' # accounts)
            => \A a \in AccountIDs :
                 accountInfo(accounts', store', a, "none").acct = store'[a]
       /\ (call = <<>> /\ call' # <<>> /\ call'[1].err = Nil /\ call'[1].before = reset)
            => accounts'[MarshalAccountID(TxSenderAcctID(call'[1].tx).acctID)].Nonce
                 = store[TxSenderAcctID(call'[1].tx).acctID].Nonce + 1
      ]_<<vars, mempoolVars, otherVars>>

\* The mempool holds a pending record that differs from the account store's,
\* a lookup returns it, and reset can run.
C38_Witness ==
    /\ call = <<>>
    /\ \E a \in AccountIDs :
         /\ MarshalAccountID(a) \in DOMAIN accounts
         /\ accounts[MarshalAccountID(a)].Nonce = MaxNonce
         /\ accounts[MarshalAccountID(a)].Balance < store[a].Balance
         /\ accountInfo(accounts, store, a, "none").acct # store[a]

\* C36: whenever startMigration returns an error, the MigrationStatus of the
\* block context is the one from before the call, and a call that turns the
\* status into ActivationPeriod has returned no error.
C36_ErrorKeepsStatus ==
    (/\ pc = "exec"
     /\ idx <= Len(blk.resolves)
     /\ blk.resolves[idx].Type = StartMigrationEventType)
        => \A fault \in Faults :
             LET r == startMigration(tx.migrations, tx.resolutions, migrationParams,
                                     tx.status, blk.resolves[idx].Body, height + 1, fault)
             IN  /\ r.err # "nil" => r.status = tx.status
                 /\ (r.status = "ActivationPeriod" /\ tx.status # "ActivationPeriod")
                        => r.err = "nil"

\* The letters of a word, in lower case or in upper case at every place.
spells(str, word) ==
    /\ Len(str) = Len(word)
    /\ \A i \in 1..Len(word) : ToLower(<<str[i]>>) = <<word[i]>> \/ str[i] = word[i]

\* The modifier a string names without regard to case, "" if it names none.
named(str) ==
    CASE spells(str, <<"p", "u", "b", "l", "i", "c">>) -> "PUBLIC"
      [] spells(str, <<"p", "r", "i", "v", "a", "t", "e">>) -> "PRIVATE"
      [] spells(str, <<"s", "y", "s", "t", "e", "m">>) -> "SYSTEM"
      [] spells(str, <<"o", "w", "n", "e", "r">>) -> "OWNER"
      [] spells(str, <<"v", "i", "e", "w">>) -> "VIEW"
      [] OTHER -> ""

\* C40: FromAST succeeds iff every modifier string names one of public,
\* private, system, owner, view in any case and exactly one place of the list
\* names an access modifier (PUBLIC, PRIVATE, SYSTEM); on success Modifiers
\* holds every modifier of the list once, in the order of first occurrence.
C40_FromASTModifiers ==
    act # <<>> =>
        LET n == Len(statement)
            firstAt(m) == CHOOSE i \in 1..n :
                            named(statement[i]) = m /\ \A j \in 1..(i - 1) : named(statement[j]) # m
            out == act[1].Modifiers
        IN  /\ act[1].err = "nil"
                <=> /\ \A i \in 1..n : named(statement[i]) # ""
                    /\ Cardinality({i \in 1..n :
                           named(statement[i]) \in {"PUBLIC", "PRIVATE", "SYSTEM"}}) = 1
            /\ act[1].err = "nil"
                => /\ {out[i] : i \in 1..Len(out)} = {named(statement[i]) : i \in 1..n}
                   /\ \A i, j \in 1..Len(out) :
                        i < j => out[i] # out[j] /\ firstAt(out[i]) < firstAt(out[j])

\* An action is created from a statement that repeats a modifier in another
\* case after its access modifier.
C40_Witness ==
    /\ act # <<>>
    /\ act[1].err = "nil"
    /\ Len(statement) = 3
    /\ act[1].Modifiers = <<"VIEW", "PUBLIC">>
    /\ statement[1] # statement[3]

\* C34: from the lookup of the pending account to the update of nonce and
\* balance, applyTransaction holds acctsMtx, and so does reset while it
\* replaces the map and accountInfoSafe while it looks up: no two goroutines
\* are in these sections at once, the record a caller checks is the record of
\* the mempool until the caller has written, and no nonce is accepted twice
\* between two resets.
C34_AtomicUnderMutex ==
    /\ \A t \in Threads :
         threads[t].pc \in {"lookup", "check", "write", "reset", "unlock"} => acctsMtx = t
    /\ \A t \in Workers :
         threads[t].pc \in {"check", "write"}
            => /\ MarshalAccountID(TxSenderAcctID(threads[t].tx).acctID) \in DOMAIN accounts
               /\ accounts[MarshalAccountID(TxSenderAcctID(threads[t].tx).acctID)]
                    = threads[t].acct
    /\ \A n \in 1..MaxNonce : accepted[n] <= 1

\* Two callers came with the same nonce at once: one was accepted, the other
\* waited for the mutex and was rejected for its nonce.
C34_Witness ==
    /\ threads[1].pc = "done"
    /\ threads[2].pc = "done"
    /\ threads[1].tx.Nonce = threads[2].tx.Nonce
    /\ threads[1].err = Nil
    /\ threads[2].err.is = "ErrInvalidNonce"
    /\ threads[Resetter].pc = "lock"

====
